---- MODULE Spec2Model ----
(***************************************************************************)
(* Model of the light-client bridge: the chain-state manager, the durable  *)
(* store and the indexer loop (raito-bridge-node, zoro-bridge-node), the   *)
(* block MMR accumulator (raito-spv-mmr) and the SPV verifier              *)
(* (raito-spv-verify, zoro-spv-verify).                                    *)
(*                                                                         *)
(* The module holds several specifications over one list of variables:     *)
(*   Spec      the indexer writing the store, with crashes and restarts    *)
(*   MmrSpec   the block MMR: appends, proof generation and verification   *)
(*   VerSpec   the verifier applied to a compressed SPV proof              *)
(*   WorkSpec  the confirmation / work policy                              *)
(* Each specification leaves the variables of the others at their idle    *)
(* value.                                                                  *)
(***************************************************************************)
EXTENDS Integers, Sequences, FiniteSets, TLC

VARIABLES
    variant,            \* which indexer binary runs: "raito" or "zoro"
    db,                 \* the committed content of the SQLite database
    tx,                 \* the writer connection's open transaction
    pc,                 \* the indexer task's position in run_inner
    next_block_height,  \* run_inner's local next_block_height
    current_state,      \* ChainStateManager.current_state
    block_header,       \* the header wait_block_header returned
    shutdown,           \* the shutdown broadcast was sent
    runs,               \* how many times the process was started
    log,                \* history: the commits made, each with its run and height
    mmr,                \* MmrSpec: the BlockMMR under construction
    ver,                \* VerSpec: the verifier's input and its result
    work,               \* WorkSpec: the work policy's input and its result
    client,             \* ClientSpec: the node, the node client and its call
    rpc,                \* the last request to the RPC server and its response
    prover,             \* ProveSpec: the batch prover's loop and its output directory
    ser,                \* SerSpec: a value and the felts the Cairo serializers emit for it
    fly                 \* FlySpec: a FlyClient MMR store, a proof and its verification

ivars == <<variant, db, tx, pc, next_block_height, current_state, block_header,
           shutdown, runs, log>>
vars == <<variant, db, tx, pc, next_block_height, current_state, block_header,
          shutdown, runs, log, mmr, ver, work, client, rpc, prover, ser, fly>>

(***************************************************************************)
(* Bounds of the model.                                                    *)
(***************************************************************************)
\* heights the indexer processes beyond the height it finds at start-up
MaxBlocks == 3
\* process starts (the first start and the restarts after a stop)
MaxRuns == 2

(***************************************************************************)
(* Program constants.                                                      *)
(***************************************************************************)
BLOCKS_PER_EPOCH == 2016
POW_AVERAGING_WINDOW == 17
MAX_TIMESTAMP_HISTORY == 28
HEARTWOOD_ACTIVATION == 903000
CANOPY_ACTIVATION == 1046400
NU5_ACTIVATION == 1687104
GENESIS_TIME == 1477641360
GENESIS_TOTAL_WORK == 8192

Idle == [idle |-> TRUE]
NoRequest == [latest |-> -1, status |-> "none", body |-> <<0, 0>>]
None == [none |-> TRUE]

Max(S) == CHOOSE x \in S : \A y \in S : y <= x
Last(s) == s[Len(s)]
Copies(n, x) == [i \in 1..n |-> x]

(***************************************************************************)
(* Headers and difficulty.  A header is reduced to the fields the chain    *)
(* state reads: its time and its compact difficulty (nBits).  The compact  *)
(* values used are 0x207fffff, 0x2000ffff, 0x11020000 (the target 2^129,   *)
(* whose work is 2^127 - 1) and the negative 0x1f800000, written as hex    *)
(* strings.                                                                *)
(***************************************************************************)
GenesisTargetHex == "0007ffffffffffffffffffffffffffffffffffffffffffffffffffffffffffff"
GenesisHashHex == "00040fe8ec8471911baa1db1266ea15dd06b4a8a5c453883c000b031973dce08"

BitsEasy == "207fffff"
BitsHard == "2000ffff"
BitsNegative == "1f800000"
BitsTiny == "11020000"

Headers ==
    {[time |-> GENESIS_TIME + 150, bits |-> BitsEasy],
     [time |-> GENESIS_TIME + 75, bits |-> BitsHard],
     [time |-> GENESIS_TIME + 150, bits |-> BitsNegative],
     [time |-> GENESIS_TIME + 150, bits |-> BitsTiny]}

(***************************************************************************)
(* u128: total_work is written as eight 16-bit limbs, the least            *)
(* significant first.                                                      *)
(***************************************************************************)
LimbBase == 65536
U128Limbs == 8

\* the u128 of a number below 2^31
u128(n) ==
    [i \in 1..U128Limbs |->
        IF i = 1 THEN n % LimbBase ELSE IF i = 2 THEN n \div LimbBase ELSE 0]

\* the carry out of limb i of a + b
RECURSIVE Carry(_, _, _)
Carry(a, b, i) ==
    IF i = 0 THEN 0 ELSE (a[i] + b[i] + Carry(a, b, i - 1)) \div LimbBase

\* a + b modulo 2^128
wrapping_add(a, b) ==
    [i \in 1..U128Limbs |-> (a[i] + b[i] + Carry(a, b, i - 1)) % LimbBase]

\* u128::checked_add: ok is FALSE for None
checked_add(a, b) ==
    IF Carry(a, b, U128Limbs) = 0
    THEN [ok |-> TRUE, value |-> wrapping_add(a, b)]
    ELSE [ok |-> FALSE, value |-> a]

\* CompactDifficulty::to_expanded followed by encode_hex: the 256-bit target
\* mantissa * 256^(exponent - 3) as big-endian hex, None for a negative or
\* zero value.
to_expanded(bits) ==
    CASE bits = BitsEasy -> "7fffff0000000000000000000000000000000000000000000000000000000000"
      [] bits = BitsHard -> "00ffff0000000000000000000000000000000000000000000000000000000000"
      [] bits = BitsTiny -> "0000000000000000000000000000000200000000000000000000000000000000"
      [] OTHER -> "none"

\* faulty variant, for testing the properties: a header adds no work
work_of_nothing(target) == u128(0)

\* Work::try_from: floor(2^256 / (target + 1)), as a u128.
work_of(target) ==
    CASE target = "7fffff0000000000000000000000000000000000000000000000000000000000" -> u128(2)
      [] target = "00ffff0000000000000000000000000000000000000000000000000000000000" -> u128(256)
      [] target = "0000000000000000000000000000000200000000000000000000000000000000" ->
             [i \in 1..U128Limbs |-> IF i = U128Limbs THEN 32767 ELSE 65535]
      [] target = GenesisTargetHex -> u128(8192)

\* Header::hash: the block hash is a function of the whole header and of
\* nothing else; the height stands for the fields the model leaves out.
block_hash(height, header) == <<"hash", height, header.time, header.bits>>

(***************************************************************************)
(* ChainStateManager (chain_state.rs).                                     *)
(***************************************************************************)
genesis_state ==
    [block_height |-> 0,
     total_work |-> u128(GENESIS_TOTAL_WORK),
     best_block_hash |-> <<"hash", 0, GENESIS_TIME, GenesisHashHex>>,
     current_target |-> GenesisTargetHex,
     prev_timestamps |-> <<GENESIS_TIME>>,
     epoch_start_time |-> GENESIS_TIME,
     pow_target_history |-> Copies(POW_AVERAGING_WINDOW, GenesisTargetHex)]

\* faulty variant, for testing the properties: the sum wraps around
compute_total_work_wrapping(prev_total_work, expanded_target) ==
    [ok |-> TRUE, value |-> wrapping_add(prev_total_work, work_of(expanded_target))]

\* ok is FALSE when checked_add returns None and the expect panics
compute_total_work(prev_total_work, expanded_target) ==
    checked_add(prev_total_work, work_of(expanded_target))

\* faulty variant, for testing the properties: the window is never trimmed
next_prev_timestamps_unbounded(prev, block_time) == Append(prev, block_time)

\* faulty variant, for testing the properties: the newest timestamp is put first
next_prev_timestamps_newest_first(prev, block_time) ==
    <<block_time>> \o (IF Len(prev) = MAX_TIMESTAMP_HISTORY THEN Tail(prev) ELSE prev)

\* the capped window of recent timestamps
next_prev_timestamps(prev, block_time) ==
    Append(IF Len(prev) = MAX_TIMESTAMP_HISTORY THEN Tail(prev) ELSE prev, block_time)

\* the sliding window of recent targets
next_pow_target_history(prev, current_target) ==
    Append(IF prev = <<>> THEN Copies(POW_AVERAGING_WINDOW, current_target)
           ELSE IF Len(prev) = POW_AVERAGING_WINDOW THEN Tail(prev)
           ELSE prev,
           current_target)

\* faulty variant, for testing the properties: the epoch start is never renewed
next_epoch_start_time_never(cur, block_height, block_time) == cur.epoch_start_time

\* the timestamp of the first block of the epoch
next_epoch_start_time(cur, block_height, block_time) ==
    IF block_height % BLOCKS_PER_EPOCH = 0 THEN block_time ELSE cur.epoch_start_time

\* The state update computes for (current_state, block_height, block_header);
\* ok is FALSE when the header's difficulty does not expand (an error is
\* returned) and when the total work overflows (the task panics).
new_state(cur, block_height, header) ==
    IF block_height = 0 THEN [ok |-> TRUE, panicked |-> FALSE, state |-> cur]
    ELSE IF to_expanded(header.bits) = "none"
    THEN [ok |-> FALSE, panicked |-> FALSE, state |-> cur]
    ELSE IF ~compute_total_work(cur.total_work, to_expanded(header.bits)).ok
    THEN [ok |-> FALSE, panicked |-> TRUE, state |-> cur]
    ELSE [ok |-> TRUE, panicked |-> FALSE,
          state |->
            [block_height |-> block_height,
             total_work |->
                 compute_total_work(cur.total_work, to_expanded(header.bits)).value,
             best_block_hash |-> block_hash(block_height, header),
             current_target |-> to_expanded(header.bits),
             prev_timestamps |-> next_prev_timestamps(cur.prev_timestamps, header.time),
             epoch_start_time |-> next_epoch_start_time(cur, block_height, header.time),
             pow_target_history |->
                 next_pow_target_history(cur.pow_target_history, to_expanded(header.bits))]]

(***************************************************************************)
(* The durable store (store.rs).  db is what a reader connection sees: the *)
(* committed rows.  tx holds the rows the single writer connection has     *)
(* inserted since BEGIN; COMMIT moves them into db, and closing the        *)
(* connection (an error return, a crash) drops them.                       *)
(*                                                                         *)
(* The database found at start-up is either new or the one an earlier run  *)
(* left after indexing the heights below StartHeight.  Of such a database  *)
(* the model keeps the newest row of each table, the only one the indexer  *)
(* reads (restore reads height next - 1); the older rows are not           *)
(* represented, and the properties speak of the rows that are.             *)
(***************************************************************************)
NoRows == [h \in {} |-> None]
NoTx == [open |-> FALSE, chain_states |-> NoRows, block_headers |-> NoRows]
EmptyFlyclient == [heartwood |-> <<>>, canopy |-> <<>>, nu5 |-> <<>>]

StartHeights == {0, BLOCKS_PER_EPOCH - 1, HEARTWOOD_ACTIVATION - 1}

\* the chain an earlier run indexed: every header with the easy difficulty,
\* one second apart
PrefixHeader(h) == [time |-> GENESIS_TIME + h, bits |-> BitsEasy]
PrefixState(h) ==
    [block_height |-> h,
     total_work |-> u128(GENESIS_TOTAL_WORK + 2 * h),
     best_block_hash |-> block_hash(h, PrefixHeader(h)),
     current_target |-> to_expanded(BitsEasy),
     prev_timestamps |-> [i \in 1..MAX_TIMESTAMP_HISTORY |->
                             GENESIS_TIME + h - MAX_TIMESTAMP_HISTORY + i],
     epoch_start_time |-> GENESIS_TIME + (h - (h % BLOCKS_PER_EPOCH)),
     pow_target_history |-> Copies(POW_AVERAGING_WINDOW, to_expanded(BitsEasy))]

DatabaseAt(start) ==
    IF start = 0
    THEN [chain_states |-> NoRows, block_headers |-> NoRows, flyclient |-> EmptyFlyclient]
    ELSE [chain_states |-> (start - 1) :> PrefixState(start - 1),
          block_headers |-> (start - 1) :> PrefixHeader(start - 1),
          flyclient |-> EmptyFlyclient]

\* the rows the writer connection sees inside its transaction
Visible(table) == tx[table] @@ db[table]

\* INSERT INTO chain_states: a second row for a height violates the primary key
add_chain_state(height, state) ==
    IF height \in DOMAIN Visible("chain_states")
    THEN [ok |-> FALSE, tx |-> tx]
    ELSE [ok |-> TRUE,
          tx |-> [tx EXCEPT !.chain_states = (height :> state) @@ tx.chain_states]]

\* INSERT INTO block_headers
add_block_header(t, height, header) ==
    IF height \in DOMAIN (t.block_headers @@ db.block_headers)
    THEN [ok |-> FALSE, tx |-> t]
    ELSE [ok |-> TRUE,
          tx |-> [t EXCEPT !.block_headers = (height :> header) @@ t.block_headers]]

\* SELECT height FROM chain_states ORDER BY height DESC LIMIT 1
get_latest_chain_state_height ==
    IF DOMAIN db.chain_states = {} THEN [ok |-> FALSE, height |-> 0]
    ELSE [ok |-> TRUE, height |-> Max(DOMAIN db.chain_states)]

get_chain_state(height) ==
    IF height \in DOMAIN db.chain_states
    THEN [ok |-> TRUE, state |-> db.chain_states[height]]
    ELSE [ok |-> FALSE, state |-> genesis_state]

\* faulty variant, for testing the properties: the commit replaces the tables by the transaction's rows
commit_replacing(d, t) ==
    [d EXCEPT !.chain_states = t.chain_states, !.block_headers = t.block_headers]

\* COMMIT: the transaction's rows become visible to the readers, all at once
commit(d, t) ==
    [d EXCEPT !.chain_states = t.chain_states @@ d.chain_states,
              !.block_headers = t.block_headers @@ d.block_headers]

\* ChainStateManager::restore
restore(height) ==
    IF height = 0 THEN [ok |-> TRUE, state |-> genesis_state]
    ELSE get_chain_state(height - 1)

(***************************************************************************)
(* The indexer (indexer.rs): run_inner, one action per await point.        *)
(***************************************************************************)
epoch_name_for_height(height) ==
    IF height >= NU5_ACTIVATION THEN "nu5"
    ELSE IF height >= CANOPY_ACTIVATION THEN "canopy"
    ELSE "heartwood"

\* the height run_inner starts at: raito propagates the error of an empty
\* table, zoro starts at 0
first_height ==
    IF get_latest_chain_state_height.ok
    THEN [ok |-> TRUE, height |-> get_latest_chain_state_height.height + 1]
    ELSE IF variant = "zoro" THEN [ok |-> TRUE, height |-> 0]
    ELSE [ok |-> FALSE, height |-> 0]

\* the positions of a process that is not running: never started or killed,
\* run_inner returned an error, run_inner returned Ok, the task panicked
NotRunning == {"stopped", "failed", "done", "panicked"}

\* the RPC server is a task of the same process (main.rs): a response in
\* flight is lost when the process exits
rpc_of_process == rpc' = IF pc' \in NotRunning THEN NoRequest ELSE rpc

Exited(p) ==
    /\ pc' = p
    /\ tx' = NoTx
    /\ next_block_height' = 0
    /\ current_state' = genesis_state
    /\ block_header' = None

\* the process starts: open the store, find the next height, restore the manager
Start ==
    /\ pc \in NotRunning
    /\ runs < MaxRuns
    /\ runs' = runs + 1
    /\ shutdown' = FALSE
    /\ IF first_height.ok /\ restore(first_height.height).ok
       THEN /\ pc' = "wait"
            /\ next_block_height' = first_height.height
            /\ current_state' = restore(first_height.height).state
            /\ tx' = NoTx
            /\ block_header' = None
       ELSE Exited("failed")
    /\ UNCHANGED <<variant, ser, fly, prover, db, log, mmr, ver, work, client>>
    /\ rpc_of_process

\* wait_block_header returned Ok((block_header, block_hash))
WaitBlockHeader ==
    /\ pc = "wait"
    /\ Cardinality(DOMAIN db.chain_states) <= MaxBlocks
    /\ \E header \in Headers : block_header' = header
    /\ pc' = "fetched"
    /\ UNCHANGED <<variant, ser, fly, prover, db, tx, next_block_height, current_state, shutdown, runs,
                   log, mmr, ver, work, client>>
    /\ rpc_of_process

\* wait_block_header returned Err: run_inner returns the error
WaitBlockHeaderFails ==
    /\ pc = "wait"
    /\ Exited("failed")
    /\ UNCHANGED <<variant, ser, fly, prover, db, shutdown, runs, log, mmr, ver, work, client>>
    /\ rpc_of_process

\* faulty variant, for testing the properties: the shutdown is acted upon at every await
ShutdownReceivedAnywhere ==
    /\ pc \in {"wait", "begun", "state_added", "updated"}
    /\ shutdown
    /\ Exited("done")
    /\ UNCHANGED <<variant, ser, fly, prover, db, shutdown, runs, log, mmr, ver, work, client>>
    /\ rpc_of_process

\* faulty variant, for testing the properties: the shutdown arm takes the message
\* and the loop goes on
ShutdownReceivedIgnored ==
    /\ pc = "wait"
    /\ shutdown
    /\ UNCHANGED vars

\* the shutdown arm of the select
ShutdownReceived ==
    /\ pc = "wait"
    /\ shutdown
    /\ Exited("done")
    /\ UNCHANGED <<variant, ser, fly, prover, db, shutdown, runs, log, mmr, ver, work, client>>
    /\ rpc_of_process

\* store.begin()
Begin ==
    /\ pc = "fetched"
    /\ tx' = [NoTx EXCEPT !.open = TRUE]
    /\ pc' = "begun"
    /\ UNCHANGED <<variant, ser, fly, prover, db, next_block_height, current_state, block_header,
                   shutdown, runs, log, mmr, ver, work, client>>
    /\ rpc_of_process

\* faulty variant, for testing the properties: the chain state is inserted outside the transaction
UpdateAddChainStateAutocommit ==
    /\ pc = "begun"
    /\ LET r == new_state(current_state, next_block_height, block_header)
           w == add_chain_state(next_block_height, r.state)
       IN IF r.ok /\ w.ok
          THEN /\ db' = [db EXCEPT !.chain_states = w.tx.chain_states @@ @]
               /\ tx' = w.tx
               /\ pc' = "state_added"
               /\ UNCHANGED <<next_block_height, current_state, block_header>>
          ELSE /\ Exited(IF r.panicked THEN "panicked" ELSE "failed")
               /\ UNCHANGED db
    /\ UNCHANGED <<variant, ser, fly, prover, shutdown, runs, log, mmr, ver, work, client>>
    /\ rpc_of_process

\* faulty variant, for testing the properties: a failed update skips the height
UpdateAddChainStateLenient ==
    /\ pc = "begun"
    /\ LET r == new_state(current_state, next_block_height, block_header)
           w == add_chain_state(next_block_height, r.state)
       IN IF r.ok /\ w.ok
          THEN /\ tx' = w.tx
               /\ pc' = "state_added"
               /\ UNCHANGED <<next_block_height, current_state, block_header>>
          ELSE /\ tx' = NoTx
               /\ pc' = "wait"
               /\ next_block_height' = next_block_height + 1
               /\ UNCHANGED <<current_state, block_header>>
    /\ UNCHANGED <<variant, ser, fly, prover, db, shutdown, runs, log, mmr, ver, work, client>>
    /\ rpc_of_process

\* chain_state_mgr.update, up to and including add_chain_state
UpdateAddChainState ==
    /\ pc = "begun"
    /\ LET r == new_state(current_state, next_block_height, block_header)
           w == add_chain_state(next_block_height, r.state)
       IN IF r.ok /\ w.ok
          THEN /\ tx' = w.tx
               /\ pc' = "state_added"
               /\ UNCHANGED <<next_block_height, current_state, block_header>>
          ELSE Exited(IF r.panicked THEN "panicked" ELSE "failed")
    /\ UNCHANGED <<variant, ser, fly, prover, db, shutdown, runs, log, mmr, ver, work, client>>
    /\ rpc_of_process

\* chain_state_mgr.update, from add_block_header to its return
UpdateAddBlockHeader ==
    /\ pc = "state_added"
    /\ LET w == add_block_header(tx, next_block_height, block_header)
       IN IF w.ok
          THEN /\ tx' = w.tx
               /\ current_state' = tx.chain_states[next_block_height]
               /\ pc' = "updated"
               /\ UNCHANGED <<next_block_height, block_header>>
          ELSE Exited("failed")
    /\ UNCHANGED <<variant, ser, fly, prover, db, shutdown, runs, log, mmr, ver, work, client>>
    /\ rpc_of_process

\* faulty variant, for testing the properties: the loop advances by two after a commit
CommitSkipping ==
    /\ pc = "updated"
    /\ db' = commit(db, tx)
    /\ tx' = NoTx
    /\ log' = Append(log, [run |-> runs, height |-> next_block_height])
    /\ pc' = "wait"
    /\ next_block_height' = next_block_height + 2
    /\ UNCHANGED <<variant, ser, fly, prover, current_state, block_header, shutdown, runs, mmr, ver, work, client>>
    /\ rpc_of_process

\* store.commit(); raito then advances, zoro goes on to the FlyClient MMR
\* for a Heartwood+ block
Commit ==
    /\ pc = "updated"
    /\ db' = commit(db, tx)
    /\ tx' = NoTx
    /\ log' = Append(log, [run |-> runs, height |-> next_block_height])
    /\ IF variant = "zoro" /\ next_block_height >= HEARTWOOD_ACTIVATION
       THEN /\ pc' = "flyclient"
            /\ UNCHANGED next_block_height
       ELSE /\ pc' = "wait"
            /\ next_block_height' = next_block_height + 1
    /\ UNCHANGED <<variant, ser, fly, prover, current_state, block_header, shutdown, runs, mmr, ver, work, client>>
    /\ rpc_of_process

\* zoro: get_block_flyclient_data, then mmr.append on the epoch's own store
FlyclientAppend ==
    /\ pc = "flyclient"
    /\ \E fetched \in BOOLEAN :
         IF fetched
         THEN /\ db' = [db EXCEPT !.flyclient[epoch_name_for_height(next_block_height)] =
                                      Append(@, next_block_height)]
              /\ pc' = "wait"
              /\ next_block_height' = next_block_height + 1
              /\ UNCHANGED <<tx, current_state, block_header>>
         ELSE /\ Exited("failed")
              /\ UNCHANGED db
    /\ UNCHANGED <<variant, ser, fly, prover, shutdown, runs, log, mmr, ver, work, client>>
    /\ rpc_of_process

\* the shutdown task broadcasts
Shutdown ==
    /\ pc \notin NotRunning
    /\ ~shutdown
    /\ shutdown' = TRUE
    /\ UNCHANGED <<variant, ser, fly, prover, db, tx, pc, next_block_height, current_state, block_header,
                   runs, log, mmr, ver, work, client>>
    /\ rpc_of_process

\* the process is killed: the open transaction is rolled back on reopen
Crash ==
    /\ pc \notin NotRunning
    /\ Exited("stopped")
    /\ UNCHANGED <<variant, ser, fly, prover, db, shutdown, runs, log, mmr, ver, work, client>>
    /\ rpc_of_process

(***************************************************************************)
(* GET /head (rpc.rs).  A u32 is written as its two 16-bit halves, the     *)
(* high one first, so that U32(-1) is 2^32 - 1.                            *)
(***************************************************************************)
U32(n) == <<(n \div LimbBase) % LimbBase, n % LimbBase>>

\* the leaves of the block MMR the raito RPC server reads: run_inner never
\* appends to it
raito_block_count == 0

\* what `block_count - 1` gives: the difference, or for 0 the outcomes of a
\* u32 underflow, a panic with overflow checks and 2^32 - 1 without
minus_one(block_count) ==
    IF block_count = 0
    THEN {[status |-> "panic", body |-> U32(0)], [status |-> "ok", body |-> U32(-1)]}
    ELSE {[status |-> "ok", body |-> U32(block_count - 1)]}

\* get_head: the responses the handler can give in the current store state
get_head ==
    IF variant = "zoro"
    THEN IF get_latest_chain_state_height.ok
         THEN minus_one(get_latest_chain_state_height.height)
         ELSE {[status |-> "error", body |-> U32(0)]}
    ELSE minus_one(raito_block_count)

\* a GET /head request is served while the node runs; one request is followed
GetHead ==
    /\ pc \notin NotRunning
    /\ rpc = NoRequest
    /\ \E response \in get_head :
          rpc' = [latest |-> IF get_latest_chain_state_height.ok
                            THEN get_latest_chain_state_height.height ELSE -1,
                  status |-> response.status,
                  body |-> response.body]
    /\ UNCHANGED <<ivars, ser, fly, prover, mmr, ver, work, client>>

Init ==
    /\ variant \in {"raito", "zoro"}
    /\ \E start \in StartHeights : db = DatabaseAt(start)
    /\ prover = Idle
    /\ ser = Idle
    /\ fly = Idle
    /\ tx = NoTx
    /\ pc = "stopped"
    /\ next_block_height = 0
    /\ current_state = genesis_state
    /\ block_header = None
    /\ shutdown = FALSE
    /\ runs = 0
    /\ log = <<>>
    /\ mmr = Idle
    /\ ver = Idle
    /\ work = Idle
    /\ client = Idle
    /\ rpc = NoRequest

Next ==
    \/ Start
    \/ WaitBlockHeader
    \/ WaitBlockHeaderFails
    \/ ShutdownReceived
    \/ Begin
    \/ UpdateAddChainState
    \/ UpdateAddBlockHeader
    \/ Commit
    \/ FlyclientAppend
    \/ Shutdown
    \/ Crash
    \/ GetHead

Spec == Init /\ [][Next]_vars

(***************************************************************************)
(* Properties of the indexer and the store.                                *)
(***************************************************************************)
CommittedHeights == DOMAIN db.chain_states
LatestCommitted == IF CommittedHeights = {} THEN -1 ELSE Max(CommittedHeights)
HasLeaf(h) ==
    \E i \in 1..Len(db.flyclient[epoch_name_for_height(h)]) :
        db.flyclient[epoch_name_for_height(h)][i] = h

\* C1: a reader that observes a committed height finds, for every committed
\* height from the MMR's first block on, the header row, the chain-state row
\* and the MMR leaf of that block: the leaf is visible no later than the rows.
C1_MmrLeafVisibleWithRows ==
    \A h \in CommittedHeights :
        h >= HEARTWOOD_ACTIVATION => h \in DOMAIN db.block_headers /\ HasLeaf(h)

\* C2: in every committed database state (what a reader sees, and what is
\* found on reopen after a crash) the heights with a chain_states row are the
\* heights with a block_headers row.
C2_StateAndHeaderRowsTogether ==
    DOMAIN db.chain_states = DOMAIN db.block_headers

\* C2 witness: the writer has inserted the chain state of a new height and not
\* yet its header, on top of rows committed earlier.
C2_Witness ==
    /\ pc = "state_added"
    /\ next_block_height \in DOMAIN tx.chain_states
    /\ next_block_height \notin DOMAIN tx.block_headers
    /\ Len(log) >= 1

\* the transition of spec section 4.1
SpecWindow(w, x, cap) == IF Len(Append(w, x)) > cap THEN Tail(Append(w, x)) ELSE Append(w, x)
SpecTransition(prev, height, header) ==
    [block_height |-> height,
     total_work |-> wrapping_add(prev.total_work, work_of(to_expanded(header.bits))),
     best_block_hash |-> block_hash(height, header),
     current_target |-> to_expanded(header.bits),
     prev_timestamps |-> SpecWindow(prev.prev_timestamps, header.time, MAX_TIMESTAMP_HISTORY),
     epoch_start_time |-> IF height % BLOCKS_PER_EPOCH = 0 THEN header.time
                          ELSE prev.epoch_start_time,
     pow_target_history |->
         IF prev.pow_target_history = <<>>
         THEN Copies(POW_AVERAGING_WINDOW, to_expanded(header.bits))
         ELSE SpecWindow(prev.pow_target_history, to_expanded(header.bits),
                         POW_AVERAGING_WINDOW)]

\* C3: for every committed height h > 0 the stored chain state is the
\* transition of the stored state of h - 1 and the stored header of h.
C3_StoredStateIsTransition ==
    \A h \in CommittedHeights :
        (h > 0 /\ (h - 1) \in CommittedHeights) =>
            /\ h \in DOMAIN db.block_headers
            /\ db.chain_states[h] =
                   SpecTransition(db.chain_states[h - 1], h, db.block_headers[h])

\* C3 witness: an epoch boundary and the height after it are committed, the
\* latter by a run that restarted after the former.
C3_Witness ==
    /\ BLOCKS_PER_EPOCH \in CommittedHeights
    /\ \E k \in 1..Len(log) : log[k].height = BLOCKS_PER_EPOCH + 1 /\ log[k].run = 2
    /\ \E k \in 1..Len(log) : log[k].height = BLOCKS_PER_EPOCH /\ log[k].run = 1

\* C4: every change of the committed heights adds exactly the height after
\* the latest committed one (0 on an empty store): no gap, no repetition,
\* also across restarts.
C4_CommitsAreConsecutive ==
    [][DOMAIN db'.chain_states # DOMAIN db.chain_states =>
          DOMAIN db'.chain_states = DOMAIN db.chain_states \cup {LatestCommitted + 1}]_vars

\* C4 witness: a commit made by the second run directly follows a commit of
\* the first run.
C4_Witness ==
    \E k \in 1..(Len(log) - 1) :
        /\ log[k].run = 1
        /\ log[k + 1].run = 2
        /\ log[k + 1].height = log[k].height + 1

\* C5: a committed chain_states row is never modified, replaced or removed.
C5_CommittedStateNeverChanges ==
    [][\A h \in DOMAIN db.chain_states :
          /\ h \in DOMAIN db'.chain_states
          /\ db'.chain_states[h] = db.chain_states[h]]_vars

\* C5 witness: after a restart the manager has written the state of a new
\* height into a transaction while earlier heights are committed.
C5_Witness ==
    /\ runs = 2
    /\ pc = "updated"
    /\ Len(log) >= 2
    /\ next_block_height \notin CommittedHeights

\* a < b for two u128 values
u128_lt(a, b) ==
    \E i \in 1..U128Limbs :
        a[i] < b[i] /\ \A k \in (i + 1)..U128Limbs : a[k] = b[k]

\* C15: for every committed height h > 0 whose predecessor is committed, the
\* stored total_work of h is strictly greater than the stored total_work of
\* h - 1.
C15_TotalWorkStrictlyIncreases ==
    \A h \in CommittedHeights :
        (h > 0 /\ (h - 1) \in CommittedHeights) =>
            u128_lt(db.chain_states[h - 1].total_work, db.chain_states[h].total_work)

\* C15 witness: two heights were committed in a row, the later one with the
\* header of the smallest target.
C15_Witness ==
    \E h \in CommittedHeights :
        /\ h > 0
        /\ (h - 1) \in CommittedHeights
        /\ db.block_headers[h].bits = BitsTiny
        /\ Len(log) >= 2

\* a + b is at most 2^128 - 1: b does not exceed the complement of a
SumFits(a, b) == ~u128_lt([i \in 1..U128Limbs |-> LimbBase - 1 - a[i]], b)

\* update is about to run on a header whose work does not fit on top of the
\* current total work
UpdateOverflows ==
    /\ pc = "begun"
    /\ next_block_height > 0
    /\ to_expanded(block_header.bits) # "none"
    /\ ~SumFits(current_state.total_work, work_of(to_expanded(block_header.bits)))

\* C16: when the current total work plus the header's work exceeds the
\* largest u128, update does not go on: no chain state of that height is
\* written to the transaction or the database, and the manager's current
\* state does not take a new value.
C16_OverflowFailsUpdate ==
    [][UpdateOverflows =>
          /\ pc' \notin {"state_added", "updated"}
          /\ next_block_height \notin DOMAIN tx'.chain_states
          /\ db' = db
          /\ current_state' \in {current_state, genesis_state}]_vars

\* C16 witness: the task panicked on the overflow after committing a block
\* of work 2^127 - 1.
C16_Witness ==
    /\ pc = "panicked"
    /\ LatestCommitted >= 1
    /\ db.block_headers[LatestCommitted].bits = BitsTiny

\* C18: the indexer returns on the shutdown signal only from the select in
\* which it waits for the next header: no transaction is open then, nothing
\* is written by the return, and the committed rows are whole blocks.
C18_ShutdownOnlyBetweenBlocks ==
    [][(pc # "done" /\ pc' = "done") =>
          /\ pc = "wait"
          /\ ~tx.open
          /\ tx' = NoTx
          /\ db' = db
          /\ DOMAIN db.chain_states = DOMAIN db.block_headers]_vars

\* C18 witness: the indexer returned on the shutdown signal in a run in
\* which it had committed a block.
C18_Witness ==
    /\ pc = "done"
    /\ shutdown
    /\ \E k \in 1..Len(log) : log[k].run = runs

\* update is about to run on a header it fails on
UpdateFails ==
    /\ pc = "begun"
    /\ ~new_state(current_state, next_block_height, block_header).ok

\* C19: when update fails for height h the loop does not go on (no row of h
\* enters the transaction, nothing is committed, no other height is taken
\* up); when run_inner ends with an error from the fetch or the update, the
\* rows of h are neither committed nor kept in a transaction; and after the
\* error nothing happens to the store until the process is started again.
C19_FailureAbortsWithoutCommit ==
    [][/\ UpdateFails =>
             /\ pc' \in {"begun"} \cup NotRunning
             /\ db' = db
             /\ next_block_height \notin DOMAIN tx'.chain_states
       /\ (pc \in {"wait", "begun", "state_added"} /\ pc' \in {"failed", "panicked"}) =>
             /\ db' = db
             /\ tx' = NoTx
             /\ next_block_height \notin DOMAIN db'.chain_states
             /\ next_block_height \notin DOMAIN db'.block_headers
       /\ pc \in {"failed", "panicked"} =>
             /\ runs' = runs + 1
             /\ db' = db]_vars

\* C19 witness: a raito run that had committed a block ended with an error,
\* which can only be that of the fetch or of the update.
C19_Witness ==
    /\ variant = "raito"
    /\ pc = "failed"
    /\ \E k \in 1..Len(log) : log[k].run = runs

\* C20: GET /head answers with the largest height that has a committed
\* chain_states row.
C20_HeadIsLatestCommitted ==
    (rpc # NoRequest /\ rpc.latest >= 0) =>
        /\ rpc.status = "ok"
        /\ rpc.body = U32(rpc.latest)

(***************************************************************************)
(* The block MMR (raito-spv-mmr).  A digest is written as a sequence of    *)
(* integers in prefix form: <<k>> with k >= 1 is the 0x-prefixed hex of    *)
(* block hash k, <<0>> is the zero digest, and the hash of a list of n     *)
(* digests is <<-n>> followed by the digests.  Two lists hash to the same  *)
(* digest only if they are the same list.                                  *)
(***************************************************************************)
MaxLeaves == 5
HeaderIds == {1, 2}

null_root == <<0>>
encode_hex(block_hash_id) == <<block_hash_id>>

RECURSIVE Flatten(_)
Flatten(list) == IF list = <<>> THEN <<>> ELSE Head(list) \o Flatten(Tail(list))

\* Hasher::hash
hash(list) == <<0 - Len(list)>> \o Flatten(list)

\* block_header_digest: the hash of the one-element list holding the
\* 0x-prefixed hex of the header's block hash
block_header_digest(header) == hash(<<encode_hex(header)>>)

RECURSIVE bit_length(_)
bit_length(n) == IF n = 0 THEN 0 ELSE 1 + bit_length(n \div 2)

RECURSIVE count_ones(_)
count_ones(n) == IF n = 0 THEN 0 ELSE (n % 2) + count_ones(n \div 2)

RECURSIVE Pow2(_)
Pow2(n) == IF n = 0 THEN 1 ELSE 2 * Pow2(n - 1)

leaf_count_to_mmr_size(leaf_count) == 2 * leaf_count - count_ones(leaf_count)
map_leaf_index_to_element_index(leaf_index) ==
    2 * leaf_index + 1 - count_ones(leaf_index)

\* the number of trailing one bits of the leaf count
RECURSIVE leaf_count_to_append_no_merges(_)
leaf_count_to_append_no_merges(leaf_count) ==
    IF leaf_count % 2 = 0 THEN 0
    ELSE 1 + leaf_count_to_append_no_merges(leaf_count \div 2)

\* elements_count_to_leaf_count: walk the mountains from the largest down
RECURSIVE LeafCountWalk(_, _, _)
LeafCountWalk(mountain_leaf_count, current_elements_count, leaf_count) ==
    IF mountain_leaf_count = 0
    THEN [ok |-> current_elements_count = 0, value |-> leaf_count]
    ELSE IF 2 * mountain_leaf_count - 1 <= current_elements_count
         THEN LeafCountWalk(mountain_leaf_count \div 2,
                            current_elements_count - (2 * mountain_leaf_count - 1),
                            leaf_count + mountain_leaf_count)
         ELSE LeafCountWalk(mountain_leaf_count \div 2, current_elements_count,
                            leaf_count)

elements_count_to_leaf_count(elements_count) ==
    LeafCountWalk(Pow2(bit_length(elements_count)), elements_count, 0)

mmr_size_to_leaf_count(elements_count) ==
    elements_count_to_leaf_count(elements_count).value

element_index_to_leaf_index(element_index) ==
    IF element_index = 0 THEN [ok |-> FALSE, value |-> 0]
    ELSE elements_count_to_leaf_count(element_index - 1)

\* find_peaks: the element indices of the peaks, left to right; empty when
\* the count is not the size of an MMR
RECURSIVE FindPeaksWalk(_, _, _, _)
FindPeaksWalk(mountain_elements_count, elements_count, shift, peaks) ==
    IF mountain_elements_count = 0
    THEN IF elements_count > 0 THEN <<>> ELSE peaks
    ELSE IF mountain_elements_count <= elements_count
         THEN FindPeaksWalk(mountain_elements_count \div 2,
                            elements_count - mountain_elements_count,
                            shift + mountain_elements_count,
                            Append(peaks, shift + mountain_elements_count))
         ELSE FindPeaksWalk(mountain_elements_count \div 2, elements_count,
                            shift, peaks)

find_peaks(elements_count) ==
    FindPeaksWalk(Pow2(bit_length(elements_count)) - 1, elements_count, 0, <<>>)

\* find_siblings: the element indices of the siblings on the path from a
\* leaf to its peak, bottom-up
RECURSIVE FindSiblingsWalk(_, _, _, _, _)
FindSiblingsWalk(current, elements_count, leaf_index, height, siblings) ==
    IF current > elements_count
    THEN SubSeq(siblings, 1, Len(siblings) - 1)
    ELSE LET siblings_offset == 2 * Pow2(height) - 1
         IN IF leaf_index % 2 = 1
            THEN FindSiblingsWalk(current + 1, elements_count, leaf_index \div 2,
                                  height + 1, Append(siblings, current - siblings_offset))
            ELSE FindSiblingsWalk(current + siblings_offset + 1, elements_count,
                                  leaf_index \div 2, height + 1,
                                  Append(siblings, current + siblings_offset))

find_siblings(element_index, elements_count) ==
    LET leaf_index == element_index_to_leaf_index(element_index)
    IN IF leaf_index.ok
       THEN [ok |-> TRUE,
             value |-> FindSiblingsWalk(element_index, elements_count,
                                        leaf_index.value, 0, <<>>)]
       ELSE [ok |-> FALSE, value |-> <<>>]

\* get_peak_info: the index (among the peaks) and the height of the peak
\* above an element
RECURSIVE PeakInfoWalk(_, _, _, _, _)
PeakInfoWalk(mountain_height, elements_count, element_index, mountain_index, fuel) ==
    LET mountain_elements_count == Pow2(mountain_height) - 1
    IN IF fuel = 0 THEN [peak_index |-> mountain_index, peak_height |-> 0]
       ELSE IF mountain_elements_count <= elements_count
       THEN IF element_index <= mountain_elements_count
            THEN [peak_index |-> mountain_index, peak_height |-> mountain_height - 1]
            ELSE PeakInfoWalk(mountain_height - 1,
                              elements_count - mountain_elements_count,
                              element_index - mountain_elements_count,
                              mountain_index + 1, fuel - 1)
       ELSE PeakInfoWalk(mountain_height - 1, elements_count, element_index,
                         mountain_index, fuel - 1)

get_peak_info(elements_count, element_index) ==
    PeakInfoWalk(bit_length(elements_count), elements_count, element_index, 0,
                 bit_length(elements_count) + 1)

(***************************************************************************)
(* The accumulator behind BlockMMR: the hashes table (element index to     *)
(* hash, element indices start at 1), elements_count and leaves_count.     *)
(***************************************************************************)
\* Option<usize>: None is the empty sequence, Some(n) the sequence of n
NoCount == <<>>
Some(n) == <<n>>

EmptyMMR == [hashes |-> <<>>, elements_count |-> 0, leaves_count |-> 0]

\* retrieve_peaks_hashes: the stored hashes of the given elements, in order;
\* an element without a stored hash is left out
RECURSIVE retrieve_peaks_hashes(_, _)
retrieve_peaks_hashes(m, peak_idxs) ==
    IF peak_idxs = <<>> THEN <<>>
    ELSE IF Head(peak_idxs) \in DOMAIN m.hashes
         THEN <<m.hashes[Head(peak_idxs)]>> \o retrieve_peaks_hashes(m, Tail(peak_idxs))
         ELSE retrieve_peaks_hashes(m, Tail(peak_idxs))

\* the merges of an append: pop right and left peak, store and push the parent
RECURSIVE AppendMerges(_, _, _, _)
AppendMerges(hashes, peaks, last_element_idx, no_merges) ==
    IF no_merges = 0
    THEN [hashes |-> hashes, elements_count |-> last_element_idx]
    ELSE LET right_hash == peaks[Len(peaks)]
             left_hash == peaks[Len(peaks) - 1]
             parent_hash == hash(<<left_hash, right_hash>>)
         IN AppendMerges(((last_element_idx + 1) :> parent_hash) @@ hashes,
                         Append(SubSeq(peaks, 1, Len(peaks) - 2), parent_hash),
                         last_element_idx + 1, no_merges - 1)

\* MMR::append
append(m, value) ==
    LET peaks == retrieve_peaks_hashes(m, find_peaks(m.elements_count))
        last_element_idx == m.elements_count + 1
        r == AppendMerges((last_element_idx :> value) @@ m.hashes,
                          Append(peaks, value), last_element_idx,
                          leaf_count_to_append_no_merges(m.leaves_count))
    IN [hashes |-> r.hashes, elements_count |-> r.elements_count,
        leaves_count |-> m.leaves_count + 1]

\* MMR::create_from_peaks
create_from_peaks(peaks_hashes, elements_count) ==
    LET peaks_idx == find_peaks(elements_count)
    IN IF Len(peaks_idx) # Len(peaks_hashes)
       THEN [ok |-> FALSE, mmr |-> EmptyMMR]
       ELSE [ok |-> TRUE,
             mmr |-> [hashes |-> [p \in {peaks_idx[k] : k \in 1..Len(peaks_idx)} |->
                                     peaks_hashes[CHOOSE k \in 1..Len(peaks_idx) :
                                                      peaks_idx[k] = p]],
                      elements_count |-> elements_count,
                      leaves_count |-> mmr_size_to_leaf_count(elements_count)]]

NoProof ==
    [element_index |-> 0, element_hash |-> null_root, siblings_hashes |-> <<>>,
     peaks_hashes |-> <<>>, elements_count |-> 0]

\* MMR::get_proof
get_proof(m, element_index, elements_count) ==
    LET tree_size == IF elements_count = NoCount THEN m.elements_count
                     ELSE elements_count[1]
        siblings == find_siblings(element_index, tree_size)
    IN IF element_index = 0 \/ element_index > tree_size \/ ~siblings.ok
          \/ element_index \notin DOMAIN m.hashes
          \/ \E k \in 1..Len(siblings.value) : siblings.value[k] \notin DOMAIN m.hashes
       THEN [ok |-> FALSE, proof |-> NoProof]
       ELSE [ok |-> TRUE,
             proof |-> [element_index |-> element_index,
                        element_hash |-> m.hashes[element_index],
                        siblings_hashes |-> [k \in 1..Len(siblings.value) |->
                                                m.hashes[siblings.value[k]]],
                        peaks_hashes |-> retrieve_peaks_hashes(m, find_peaks(tree_size)),
                        elements_count |-> tree_size]]

\* the fold of verify_proof: combine the element with its siblings, the
\* element on the right when its index at that level is odd
RECURSIVE FoldSiblings(_, _, _)
FoldSiblings(h, leaf_index, siblings_hashes) ==
    IF siblings_hashes = <<>> THEN h
    ELSE FoldSiblings(IF leaf_index % 2 = 1
                      THEN hash(<<Head(siblings_hashes), h>>)
                      ELSE hash(<<h, Head(siblings_hashes)>>),
                      leaf_index \div 2, Tail(siblings_hashes))

\* MMR::verify_proof: ok is FALSE for an error, value is the returned bool
MMR_verify_proof(m, proof, element_value, elements_count) ==
    LET tree_size == IF elements_count = NoCount THEN m.elements_count
                     ELSE elements_count[1]
        leaf_count == mmr_size_to_leaf_count(tree_size)
        info == get_peak_info(tree_size, proof.element_index)
        leaf_index == element_index_to_leaf_index(proof.element_index)
        peak_hashes == retrieve_peaks_hashes(m, find_peaks(tree_size))
    IN IF count_ones(leaf_count) # Len(proof.peaks_hashes)
          \/ proof.element_index = 0 \/ proof.element_index > tree_size
       THEN [ok |-> FALSE, value |-> FALSE]
       ELSE IF Len(proof.siblings_hashes) # info.peak_height
       THEN [ok |-> TRUE, value |-> FALSE]
       ELSE IF ~leaf_index.ok \/ info.peak_index + 1 > Len(peak_hashes)
       THEN [ok |-> FALSE, value |-> FALSE]
       ELSE [ok |-> TRUE,
             value |-> peak_hashes[info.peak_index + 1] =
                       FoldSiblings(element_value, leaf_index.value,
                                    proof.siblings_hashes)]

(***************************************************************************)
(* SparseRoots::try_from_peaks (sparse_roots.rs).                          *)
(***************************************************************************)
RECURSIVE SparseWalk(_, _, _, _, _)
SparseWalk(peaks, elements_count, max_height, root_idx, result) ==
    IF elements_count = 0 /\ max_height = 0 THEN [ok |-> TRUE, roots |-> result]
    ELSE LET elements_per_height == Pow2(max_height) - 1
             next_height == IF max_height # 0 THEN max_height - 1 ELSE 0
         IN IF elements_count >= elements_per_height
            THEN IF root_idx + 1 > Len(peaks) \/ max_height = 0
                 THEN [ok |-> FALSE, roots |-> result]
                 ELSE SparseWalk(peaks, elements_count - elements_per_height,
                                 next_height, root_idx + 1,
                                 <<peaks[root_idx + 1]>> \o result)
            ELSE SparseWalk(peaks, elements_count, next_height, root_idx,
                            <<null_root>> \o result)

NoSparseRoots == [block_height |-> 0, roots |-> <<>>]

\* faulty variant, for testing the properties: no terminating zero slot is appended
try_from_peaks_unterminated(peaks, elements_count) ==
    LET leaf_count == elements_count_to_leaf_count(elements_count)
        walk == SparseWalk(peaks, elements_count, bit_length(elements_count), 0, <<>>)
    IN IF ~leaf_count.ok \/ elements_count = 0 \/ ~walk.ok
       THEN [ok |-> FALSE, value |-> NoSparseRoots]
       ELSE [ok |-> TRUE,
             value |-> [block_height |-> leaf_count.value - 1, roots |-> walk.roots]]

\* faulty variant, for testing the properties: block_height is the number of leaves
try_from_peaks_counting(peaks, elements_count) ==
    LET leaf_count == elements_count_to_leaf_count(elements_count)
        walk == SparseWalk(peaks, elements_count, bit_length(elements_count), 0, <<>>)
    IN IF ~leaf_count.ok \/ elements_count = 0 \/ ~walk.ok
       THEN [ok |-> FALSE, value |-> NoSparseRoots]
       ELSE [ok |-> TRUE,
             value |-> [block_height |-> leaf_count.value,
                        roots |-> IF walk.roots[Len(walk.roots)] # null_root
                                  THEN Append(walk.roots, null_root)
                                  ELSE walk.roots]]

\* faulty variant, for testing the properties: the peaks are placed highest first
try_from_peaks_highest_first(peaks, elements_count) ==
    LET leaf_count == elements_count_to_leaf_count(elements_count)
        walk == SparseWalk(peaks, elements_count, bit_length(elements_count), 0, <<>>)
    IN IF ~leaf_count.ok \/ elements_count = 0 \/ ~walk.ok
       THEN [ok |-> FALSE, value |-> NoSparseRoots]
       ELSE [ok |-> TRUE,
             value |-> [block_height |-> leaf_count.value - 1,
                        roots |-> Append([i \in 1..Len(walk.roots) |->
                                             walk.roots[Len(walk.roots) + 1 - i]],
                                         null_root)]]

\* ok is FALSE for an error and for the panic of ilog2 on elements_count = 0
try_from_peaks(peaks, elements_count) ==
    LET leaf_count == elements_count_to_leaf_count(elements_count)
        walk == SparseWalk(peaks, elements_count, bit_length(elements_count), 0, <<>>)
    IN IF ~leaf_count.ok \/ elements_count = 0 \/ ~walk.ok
       THEN [ok |-> FALSE, value |-> NoSparseRoots]
       ELSE [ok |-> TRUE,
             value |-> [block_height |-> leaf_count.value - 1,
                        roots |-> IF walk.roots[Len(walk.roots)] # null_root
                                  THEN Append(walk.roots, null_root)
                                  ELSE walk.roots]]

(***************************************************************************)
(* BlockMMR (block_mmr.rs).                                                *)
(***************************************************************************)
from_peaks(peaks_hashes, leaf_count) ==
    create_from_peaks(peaks_hashes, leaf_count_to_mmr_size(leaf_count))

add(m, leaf) == append(m, leaf)

BlockMMR_add_block_header(m, header) == add(m, block_header_digest(header))

get_block_count(m) == m.leaves_count

\* faulty variant, for testing the properties: the snapshot height is ignored
get_sparse_roots_current(m, chain_height) ==
    try_from_peaks(retrieve_peaks_hashes(m, find_peaks(m.elements_count)),
                   m.elements_count)

get_sparse_roots(m, chain_height) ==
    LET elements_count == IF chain_height = NoCount THEN m.elements_count
                          ELSE leaf_count_to_mmr_size(chain_height[1] + 1)
    IN try_from_peaks(retrieve_peaks_hashes(m, find_peaks(elements_count)),
                      elements_count)

NoInclusionProof ==
    [peaks_hashes |-> <<>>, siblings_hashes |-> <<>>, leaf_index |-> 0, leaf_count |-> 0]

\* faulty variant, for testing the properties: the snapshot is taken one block short
generate_proof_short(m, block_height, chain_height) ==
    LET r == get_proof(m, map_leaf_index_to_element_index(block_height),
                       IF chain_height = NoCount THEN NoCount
                       ELSE Some(leaf_count_to_mmr_size(chain_height[1])))
        leaf_count == elements_count_to_leaf_count(r.proof.elements_count)
    IN IF ~r.ok \/ ~leaf_count.ok THEN [ok |-> FALSE, proof |-> NoInclusionProof]
       ELSE [ok |-> TRUE,
             proof |-> [peaks_hashes |-> r.proof.peaks_hashes,
                        siblings_hashes |-> r.proof.siblings_hashes,
                        leaf_index |-> block_height,
                        leaf_count |-> leaf_count.value]]

generate_proof(m, block_height, chain_height) ==
    LET r == get_proof(m, map_leaf_index_to_element_index(block_height),
                       IF chain_height = NoCount THEN NoCount
                       ELSE Some(leaf_count_to_mmr_size(chain_height[1] + 1)))
        leaf_count == elements_count_to_leaf_count(r.proof.elements_count)
    IN IF ~r.ok \/ ~leaf_count.ok THEN [ok |-> FALSE, proof |-> NoInclusionProof]
       ELSE [ok |-> TRUE,
             proof |-> [peaks_hashes |-> r.proof.peaks_hashes,
                        siblings_hashes |-> r.proof.siblings_hashes,
                        leaf_index |-> block_height,
                        leaf_count |-> leaf_count.value]]

BlockMMR_verify_proof(m, header, proof) ==
    LET element_hash == block_header_digest(header)
        p == [element_index |-> map_leaf_index_to_element_index(proof.leaf_index),
              element_hash |-> element_hash,
              siblings_hashes |-> proof.siblings_hashes,
              peaks_hashes |-> proof.peaks_hashes,
              elements_count |-> leaf_count_to_mmr_size(proof.leaf_count)]
    IN MMR_verify_proof(m, p, element_hash, Some(p.elements_count))

get_root_hash(m, block_count) ==
    LET r == get_sparse_roots(m, block_count)
    IN IF r.ok THEN [ok |-> TRUE, value |-> hash(r.value.roots)]
       ELSE [ok |-> FALSE, value |-> null_root]

(***************************************************************************)
(* A block MMR in use: headers are added, proofs are generated for a block *)
(* against the current MMR or an earlier snapshot, and checked for a       *)
(* header.                                                                 *)
(***************************************************************************)
IndexerIdle ==
    /\ variant = "raito"
    /\ db = DatabaseAt(0)
    /\ tx = NoTx
    /\ pc = "stopped"
    /\ next_block_height = 0
    /\ current_state = genesis_state
    /\ block_header = None
    /\ shutdown = FALSE
    /\ runs = 0
    /\ log = <<>>

MmrInit ==
    /\ IndexerIdle
    /\ prover = Idle
    /\ ser = Idle
    /\ fly = Idle
    /\ mmr = [m |-> EmptyMMR, headers |-> <<>>, query |-> None,
              generated |-> None, verified |-> None, roots |-> None]
    /\ ver = Idle
    /\ work = Idle
    /\ client = Idle
    /\ rpc = NoRequest

MmrAddBlockHeader ==
    /\ Len(mmr.headers) < MaxLeaves
    /\ \E header \in HeaderIds :
          mmr' = [mmr EXCEPT !.m = BlockMMR_add_block_header(mmr.m, header),
                             !.headers = Append(mmr.headers, header)]
    /\ UNCHANGED <<ivars, ser, fly, prover, ver, work, client, rpc>>

MmrGenerateProof ==
    /\ \E block_height \in 0..MaxLeaves,
          chain_height \in {NoCount} \cup {Some(j) : j \in 0..(get_block_count(mmr.m) - 1)} :
          mmr' = [mmr EXCEPT
                     !.query = [block_height |-> block_height,
                                chain_height |-> chain_height,
                                block_count |-> get_block_count(mmr.m)],
                     !.generated = generate_proof(mmr.m, block_height, chain_height),
                     !.verified = None,
                     !.roots = None]
    /\ UNCHANGED <<ivars, ser, fly, prover, ver, work, client, rpc>>

MmrVerifyProof ==
    /\ mmr.generated # None
    /\ mmr.generated.ok
    /\ \E header \in HeaderIds :
          mmr' = [mmr EXCEPT
                     !.verified = [header |-> header,
                                   result |-> BlockMMR_verify_proof(
                                                  mmr.m, header, mmr.generated.proof)]]
    /\ UNCHANGED <<ivars, ser, fly, prover, ver, work, client, rpc>>

\* the snapshots a caller may name: none, or a block of the MMR
ChainHeights(m) == {NoCount} \cup {Some(j) : j \in 0..(get_block_count(m) - 1)}

\* get_sparse_roots is called; mmr.roots keeps the call and what it returned
MmrGetSparseRoots ==
    /\ \E chain_height \in ChainHeights(mmr.m) :
          mmr' = [mmr EXCEPT
                     !.roots = [call |-> "get_sparse_roots",
                                chain_height |-> chain_height,
                                block_count |-> get_block_count(mmr.m),
                                result |-> get_sparse_roots(mmr.m, chain_height)],
                     !.query = None, !.generated = None, !.verified = None]
    /\ UNCHANGED <<ivars, ser, fly, prover, ver, work, client, rpc>>

\* get_root_hash is called
MmrGetRootHash ==
    /\ \E block_count \in ChainHeights(mmr.m) :
          mmr' = [mmr EXCEPT
                     !.roots = [call |-> "get_root_hash",
                                chain_height |-> block_count,
                                block_count |-> get_block_count(mmr.m),
                                result |-> get_root_hash(mmr.m, block_count)],
                     !.query = None, !.generated = None, !.verified = None]
    /\ UNCHANGED <<ivars, ser, fly, prover, ver, work, client, rpc>>

MmrNext ==
    \/ MmrAddBlockHeader
    \/ MmrGenerateProof
    \/ MmrVerifyProof
    \/ MmrGetSparseRoots
    \/ MmrGetRootHash

MmrSpec == MmrInit /\ [][MmrNext]_vars

\* the query asks for a block of the (snapshot of the) MMR
QueryInRange ==
    /\ mmr.query # None
    /\ IF mmr.query.chain_height = NoCount
       THEN mmr.query.block_height < mmr.query.block_count
       ELSE mmr.query.block_height <= mmr.query.chain_height[1]

\* C10: for an MMR built by adding headers 0..block_count-1, a proof asked
\* for block i (i < block_count with no snapshot, i <= j < block_count with
\* snapshot j) is generated, and checking it for header i returns true.
C10_GeneratedProofVerifies ==
    QueryInRange =>
        /\ mmr.generated.ok
        /\ (mmr.verified # None
            /\ mmr.verified.header = mmr.headers[mmr.query.block_height + 1]) =>
               (mmr.verified.result.ok /\ mmr.verified.result.value)

\* C10 witness: block 1 is proven against the snapshot at block 3 of an MMR
\* of five blocks, and the check for its header has returned true.
C10_Witness ==
    /\ mmr.query # None
    /\ mmr.query.block_height = 1
    /\ mmr.query.chain_height = Some(3)
    /\ Len(mmr.headers) = 5
    /\ mmr.verified # None
    /\ mmr.verified.header = mmr.headers[2]
    /\ mmr.verified.result.value
    /\ Len(mmr.generated.proof.siblings_hashes) = 2

\* the MMR that holds only the given headers, built by adding them in order
RECURSIVE MmrOfHeaders(_)
MmrOfHeaders(headers) ==
    IF headers = <<>> THEN EmptyMMR
    ELSE BlockMMR_add_block_header(MmrOfHeaders(SubSeq(headers, 1, Len(headers) - 1)),
                                   headers[Len(headers)])
FirstLeaves(n) == MmrOfHeaders(SubSeq(mmr.headers, 1, n))

\* C11: on an MMR of more than j + 1 leaves, get_sparse_roots(Some(j)),
\* get_root_hash(Some(j)) and the peaks of generate_proof(i, Some(j)) are the
\* values the same call with None gives on the MMR of the first j + 1 leaves.
C11_SnapshotIsPrefixView ==
    /\ (/\ mmr.roots # None
        /\ mmr.roots.chain_height # NoCount
        /\ mmr.roots.block_count > mmr.roots.chain_height[1] + 1) =>
           mmr.roots.result =
               IF mmr.roots.call = "get_sparse_roots"
               THEN get_sparse_roots(FirstLeaves(mmr.roots.chain_height[1] + 1), NoCount)
               ELSE get_root_hash(FirstLeaves(mmr.roots.chain_height[1] + 1), NoCount)
    /\ (/\ mmr.query # None
        /\ mmr.query.chain_height # NoCount
        /\ mmr.query.block_count > mmr.query.chain_height[1] + 1) =>
           LET p == generate_proof(FirstLeaves(mmr.query.chain_height[1] + 1),
                                   mmr.query.block_height, NoCount)
           IN /\ p.ok = mmr.generated.ok
              /\ p.proof.peaks_hashes = mmr.generated.proof.peaks_hashes

\* C11 witness: the root hash of the snapshot at block 2 was asked of an MMR
\* of five blocks and returned.
C11_Witness ==
    /\ mmr.roots # None
    /\ mmr.roots.call = "get_root_hash"
    /\ mmr.roots.chain_height = Some(2)
    /\ mmr.roots.block_count = 5
    /\ mmr.roots.result.ok

FloorLog2(x) == CHOOSE k \in 0..x : Pow2(k) <= x /\ x < Pow2(k + 1)
RECURSIVE Popcount(_)
Popcount(n) == IF n = 0 THEN 0 ELSE (n % 2) + Popcount(n \div 2)
ElementCount(n) == 2 * n - Popcount(n)

\* get_sparse_roots(None) was called on an MMR of n > 0 leaves
SparseRootsOfAll ==
    /\ mmr.roots # None
    /\ mmr.roots.call = "get_sparse_roots"
    /\ mmr.roots.chain_height = NoCount
    /\ mmr.roots.block_count > 0

\* C12 as stated: for n > 0 leaves the roots vector of get_sparse_roots(None)
\* has length floor(log2(element_count(n))) + 2.
C12_RootsLengthLog2Plus2 ==
    SparseRootsOfAll =>
        /\ mmr.roots.result.ok
        /\ Len(mmr.roots.result.value.roots) =
               FloorLog2(ElementCount(mmr.roots.block_count)) + 2

\* C12 amended: for n > 0 leaves the roots vector of get_sparse_roots(None)
\* has length floor(log2(element_count(n) + 1)) + 1.
C12_RootsLengthLog2OfSuccessor ==
    SparseRootsOfAll =>
        /\ mmr.roots.result.ok
        /\ Len(mmr.roots.result.value.roots) =
               FloorLog2(ElementCount(mmr.roots.block_count) + 1) + 1

\* C12 witness: the sparse roots of an MMR of three leaves (four elements)
\* were returned, three entries long.
C12_Witness ==
    /\ SparseRootsOfAll
    /\ mmr.roots.block_count = 3
    /\ mmr.roots.result.ok
    /\ Len(mmr.roots.result.value.roots) = 3

\* C13: get_sparse_roots on an MMR without leaves returns block_height 0 and
\* a roots vector of exactly one zero digest.
C13_EmptyMmrSparseRoots ==
    (/\ mmr.roots # None
     /\ mmr.roots.call = "get_sparse_roots"
     /\ mmr.roots.block_count = 0) =>
        /\ mmr.roots.result.ok
        /\ mmr.roots.result.value.block_height = 0
        /\ mmr.roots.result.value.roots = <<null_root>>

\* C14: adding a leaf to an MMR of k leaves makes get_block_count return
\* k + 1 and get_sparse_roots(None) return block_height k.
C14_AppendCountsAndHeight ==
    [][mmr'.m # mmr.m =>
          /\ get_block_count(mmr'.m) = get_block_count(mmr.m) + 1
          /\ get_sparse_roots(mmr'.m, NoCount).ok
          /\ get_sparse_roots(mmr'.m, NoCount).value.block_height =
                 get_block_count(mmr.m)]_vars

\* C14 witness: a fifth leaf was added and get_sparse_roots(None) returned
\* block_height 4.
C14_Witness ==
    /\ get_block_count(mmr.m) = 5
    /\ mmr.roots # None
    /\ mmr.roots.call = "get_sparse_roots"
    /\ mmr.roots.chain_height = NoCount
    /\ mmr.roots.block_count = 5
    /\ mmr.roots.result.ok
    /\ mmr.roots.result.value.block_height = 4

(***************************************************************************)
(* Subchain work (work.rs).  The chain state's target is the one whose     *)
(* per-block work is 2^78, that is 2^178 - 1; a target is written as the   *)
(* number of times that value has been multiplied by 4, and work is        *)
(* counted in units of 2^74: floor(2^256 / ((2^178 - 1) * 4^q + 1)) is     *)
(* 2^(78 - 2q), which is 16, 4 and 1 unit for q = 0, 1 and 2.              *)
(***************************************************************************)
MaxDistance == 7

BlockWorkUnits == 16
DefaultMinWork == 6 * BlockWorkUnits
DefaultMinConfirmations == 6

Min(a, b) == IF a <= b THEN a ELSE b
Max2(a, b) == IF a >= b THEN a ELSE b

\* compute_work_from_target: 2^256 / (target + 1)
compute_work_from_target(target) == BlockWorkUnits \div Pow2(2 * target)

\* block_work * block_span, and whether it reaches `missing`; block_span is a
\* u32 in its two 16-bit halves, and the comparison is made without forming a
\* product of 2^32
SpanWork(block_work, block_span) ==
    IF block_work = 0 THEN 0
    ELSE block_work * (block_span[1] * LimbBase + block_span[2])

SpanWorkAtLeast(block_work, block_span, missing) ==
    LET rest == missing - block_work * block_span[2]
    IN rest <= 0 \/ block_work * block_span[1] >= (rest + LimbBase - 1) \div LimbBase

\* the loop of verify_subchain_work over the epochs, from the chain state's
\* epoch down to the block's; the target is multiplied by 4 at every step.
\* block_span is the u32 difference as a build without overflow checks
\* computes it (U32 wraps); `missing` is what subchain_work still lacks of
\* min_work, and the value is subchain_work >= min_work at the loop's end
RECURSIVE SubchainWorkLoop(_, _, _, _, _, _)
SubchainWorkLoop(epoch, end_epoch, block_height, chain_height, target, missing) ==
    IF missing <= 0 THEN TRUE
    ELSE IF epoch < end_epoch THEN FALSE
    ELSE LET start_block == Min(BLOCKS_PER_EPOCH * (epoch + 1), chain_height)
             end_block == Max2(BLOCKS_PER_EPOCH * epoch, block_height)
             block_span == U32(start_block - end_block)
             block_work == compute_work_from_target(target)
         IN IF SpanWorkAtLeast(block_work, block_span, missing) THEN TRUE
            ELSE SubchainWorkLoop(epoch - 1, end_epoch, block_height, chain_height,
                                  target + 1,
                                  missing - SpanWork(block_work, block_span))

\* `start_block - end_block` underflows in some pass of the loop: a panic in
\* a build with overflow checks
RECURSIVE SubchainSpanUnderflows(_, _, _, _)
SubchainSpanUnderflows(epoch, end_epoch, block_height, chain_height) ==
    /\ epoch >= end_epoch
    /\ \/ Min(BLOCKS_PER_EPOCH * (epoch + 1), chain_height)
              < Max2(BLOCKS_PER_EPOCH * epoch, block_height)
       \/ SubchainSpanUnderflows(epoch - 1, end_epoch, block_height, chain_height)

verify_subchain_work_underflows(block_height, chain_state) ==
    SubchainSpanUnderflows(chain_state.block_height \div BLOCKS_PER_EPOCH,
                           block_height \div BLOCKS_PER_EPOCH,
                           block_height, chain_state.block_height)

\* raito-spv-verify verify_subchain_work: TRUE for Ok
verify_subchain_work(block_height, chain_state, min_work) ==
    SubchainWorkLoop(chain_state.block_height \div BLOCKS_PER_EPOCH,
                     block_height \div BLOCKS_PER_EPOCH,
                     block_height, chain_state.block_height,
                     chain_state.current_target, min_work)

\* zoro-spv-verify verify_subchain_work: returns Ok without looking
zoro_verify_subchain_work(block_height, chain_state, min_work) == TRUE

\* the chain state of a tip at the given height with the 2^78 target
TipState(height) == [block_height |-> height, current_target |-> 0]

WorkHeights ==
    {0} \cup ((BLOCKS_PER_EPOCH - MaxDistance)..(BLOCKS_PER_EPOCH + 1))

WorkInit ==
    /\ IndexerIdle
    /\ prover = Idle
    /\ ser = Idle
    /\ fly = Idle
    /\ mmr = Idle
    /\ ver = Idle
    /\ work = [block_height |-> 0, distance |-> 0, lineage |-> "none", accepted |-> FALSE]
    /\ client = Idle
    /\ rpc = NoRequest

VerifySubchainWorkRaito ==
    /\ \E block_height \in WorkHeights, distance \in 0..MaxDistance :
          work' = [block_height |-> block_height, distance |-> distance,
                   lineage |-> "raito",
                   accepted |-> verify_subchain_work(block_height,
                                    TipState(block_height + distance), DefaultMinWork)]
    /\ UNCHANGED <<ivars, ser, fly, prover, mmr, ver, client, rpc>>

VerifySubchainWorkZoro ==
    /\ \E block_height \in WorkHeights, distance \in 0..MaxDistance :
          work' = [block_height |-> block_height, distance |-> distance,
                   lineage |-> "zoro",
                   accepted |-> zoro_verify_subchain_work(block_height,
                                    TipState(block_height + distance), DefaultMinWork)]
    /\ UNCHANGED <<ivars, ser, fly, prover, mmr, ver, client, rpc>>

WorkNext == VerifySubchainWorkRaito \/ VerifySubchainWorkZoro

WorkSpec == WorkInit /\ [][WorkNext]_vars

\* C9: with min_work = 6 * 2^78 and a constant target of per-block work
\* 2^78, a tip six blocks above the target block is accepted and a tip five
\* blocks above it is rejected, wherever the block lies in its epoch.
C9_SixConfirmationsPolicy ==
    work.lineage # "none" =>
        /\ work.distance = 6 => work.accepted
        /\ work.distance = 5 => ~work.accepted

(***************************************************************************)
(* The SPV verifiers (raito-spv-verify and zoro-spv-verify).               *)
(***************************************************************************)
zero_hash == null_root
ConfigProgramHash == <<11>>
OtherProgramHash == <<12>>
ConfigBootloaderHash == <<21>>
OtherBootloaderHash == <<22>>
GarbageHash == <<99>>

\* VerifierConfig::default with the work and the hashes in the model's terms
RaitoConfig(min_work) ==
    [min_work |-> min_work, bootloader_hash |-> ConfigBootloaderHash,
     task_program_hash |-> ConfigProgramHash, task_output_size |-> 8]
ZoroConfig ==
    [min_work |-> DefaultMinWork, bootloader_hash |-> ConfigBootloaderHash,
     task_program_hash |-> ConfigProgramHash, task_output_size |-> 6,
     min_confirmations |-> DefaultMinConfirmations]

\* Blake2sHasher over the little-endian bytes of a word vector, as a term
Blake2sHasher(words) == <<0 - 1000 - Len(words)>> \o words

\* faulty variant, for testing the properties: the epoch start time is pushed
\* before the timestamps
chain_state_words_epoch_first(chain_state) ==
    <<chain_state.block_height, chain_state.total_work,
      chain_state.best_block_hash, chain_state.current_target>>
    \o <<chain_state.epoch_start_time>>
    \o chain_state.prev_timestamps \o chain_state.pow_target_history

\* the word vector of ChainState::blake2s_digest, in the order of its pushes;
\* a 256-bit field (total work, best block hash, a target) stands for its
\* eight big-endian words
chain_state_words(chain_state) ==
    <<chain_state.block_height, chain_state.total_work,
      chain_state.best_block_hash, chain_state.current_target>>
    \o chain_state.prev_timestamps \o chain_state.pow_target_history
    \o <<chain_state.epoch_start_time>>

\* ChainState::blake2s_digest
blake2s_digest(chain_state) == Blake2sHasher(chain_state_words(chain_state))

\* the chain state a proof is presented with: tip at the given height,
\* target of per-block work 2^78, the target history full
VerChainState(height) ==
    [block_height |-> height, total_work |-> BlockWorkUnits * (height + 1),
     best_block_hash |-> height + 1, current_target |-> 0,
     prev_timestamps |-> <<GENESIS_TIME + height>>,
     epoch_start_time |-> GENESIS_TIME,
     pow_target_history |-> Copies(POW_AVERAGING_WINDOW, 0)]

\* raito verify_chain_state; value is the block MMR hash of the task result
verify_chain_state_unlinked(chain_state, chain_state_proof, config) ==
    IF \/ chain_state_proof.n_tasks # 1
       \/ chain_state_proof.task_output_size # config.task_output_size
       \/ chain_state_proof.task_result.chain_state_hash # blake2s_digest(chain_state)
       \/ chain_state_proof.task_program_hash # config.task_program_hash
       \/ chain_state_proof.bootloader_hash # config.bootloader_hash
       \/ ~chain_state_proof.valid
    THEN [ok |-> FALSE, value |-> null_root]
    ELSE [ok |-> TRUE, value |-> chain_state_proof.task_result.block_mmr_hash]

verify_chain_state(chain_state, chain_state_proof, config) ==
    IF \/ chain_state_proof.n_tasks # 1
       \/ chain_state_proof.task_output_size # config.task_output_size
       \/ chain_state_proof.task_result.chain_state_hash # blake2s_digest(chain_state)
       \/ chain_state_proof.task_program_hash # config.task_program_hash
       \/ chain_state_proof.task_program_hash # chain_state_proof.task_result.program_hash
       \/ chain_state_proof.bootloader_hash # config.bootloader_hash
       \/ chain_state_proof.bootloader_hash # chain_state_proof.task_result.bootloader_hash
       \/ ~chain_state_proof.valid
    THEN [ok |-> FALSE, value |-> null_root]
    ELSE [ok |-> TRUE, value |-> chain_state_proof.task_result.block_mmr_hash]

\* zoro verify_chain_state; a carried hash is compared only when it is not
\* the zero hash; value is the chain state hash
zoro_verify_chain_state(chain_state, chain_state_proof, config) ==
    IF \/ chain_state_proof.n_tasks # 1
       \/ chain_state_proof.task_output_size # config.task_output_size
       \/ chain_state_proof.task_result.chain_state_hash # blake2s_digest(chain_state)
       \/ chain_state_proof.task_program_hash # config.task_program_hash
       \/ /\ chain_state_proof.task_result.program_hash # zero_hash
          /\ chain_state_proof.task_program_hash # chain_state_proof.task_result.program_hash
       \/ chain_state_proof.bootloader_hash # config.bootloader_hash
       \/ /\ chain_state_proof.task_result.bootloader_hash # zero_hash
          /\ chain_state_proof.bootloader_hash # chain_state_proof.task_result.bootloader_hash
       \/ ~chain_state_proof.valid
    THEN [ok |-> FALSE, value |-> null_root]
    ELSE [ok |-> TRUE, value |-> chain_state_proof.task_result.chain_state_hash]

\* raito verify_block_header: the MMR is rebuilt from the proof's peaks, the
\* proof is checked and the bool it yields is dropped (only an error of the
\* check is propagated); value is the root hash of the rebuilt MMR
verify_block_header(header, block_header_proof) ==
    LET m == from_peaks(block_header_proof.peaks_hashes, block_header_proof.leaf_count)
    IN IF ~m.ok THEN [ok |-> FALSE, value |-> null_root]
       ELSE IF ~BlockMMR_verify_proof(m.mmr, header, block_header_proof).ok
       THEN [ok |-> FALSE, value |-> null_root]
       ELSE get_root_hash(m.mmr, NoCount)

\* bag_the_peaks and the root hash the accumulator keeps
RECURSIVE BagFold(_, _)
BagFold(peaks, acc) ==
    IF peaks = <<>> THEN acc
    ELSE BagFold(SubSeq(peaks, 1, Len(peaks) - 1), hash(<<peaks[Len(peaks)], acc>>))

bag_the_peaks(peaks) ==
    IF Len(peaks) = 0 THEN null_root
    ELSE IF Len(peaks) = 1 THEN peaks[1]
    ELSE BagFold(SubSeq(peaks, 1, Len(peaks) - 2),
                 hash(<<peaks[Len(peaks) - 1], peaks[Len(peaks)]>>))

calculate_root_hash(bag, elements_count) == hash(<<<<1000 + elements_count>>, bag>>)

\* zoro verify_block_inclusion: value is the root of the rebuilt MMR
verify_block_inclusion(header, proof) ==
    LET m == create_from_peaks(proof.peaks_hashes, leaf_count_to_mmr_size(proof.leaf_count))
    IN IF proof.peaks_hashes = <<>> \/ ~m.ok
          \/ (proof.siblings_hashes = <<>> /\ proof.leaf_count > 1)
       THEN [ok |-> FALSE, value |-> null_root]
       ELSE [ok |-> TRUE,
             value |-> calculate_root_hash(bag_the_peaks(proof.peaks_hashes),
                                           m.mmr.elements_count)]

\* raito verify_proof: TRUE for Ok
verify_proof(proof, config, dev) ==
    LET root0 == verify_block_header(proof.block_header, proof.block_header_proof)
        root1 == verify_chain_state(proof.chain_state, proof.chain_state_proof, config)
    IN /\ (dev \/ proof.block_header_proof.leaf_count = proof.chain_state.block_height + 1)
       /\ proof.transaction_ok
       /\ root0.ok
       /\ root1.ok
       /\ (dev \/ root0.value = root1.value)
       /\ verify_subchain_work(proof.block_header_proof.leaf_index, proof.chain_state,
                               config.min_work)

\* raito verify_proof reaches verify_subchain_work and the u32 subtraction
\* there underflows
verify_proof_underflows(proof, config, dev) ==
    /\ (dev \/ proof.block_header_proof.leaf_count = proof.chain_state.block_height + 1)
    /\ proof.transaction_ok
    /\ verify_block_header(proof.block_header, proof.block_header_proof).ok
    /\ verify_chain_state(proof.chain_state, proof.chain_state_proof, config).ok
    /\ (dev \/ verify_block_header(proof.block_header, proof.block_header_proof).value
                = verify_chain_state(proof.chain_state, proof.chain_state_proof,
                                     config).value)
    /\ verify_subchain_work_underflows(proof.block_header_proof.leaf_index,
                                       proof.chain_state)

\* the ways a call of raito verify_proof ends: Ok or Err as the build without
\* overflow checks computes it, and a panic where the subtraction underflows
\* in a build with them
verify_proof_outcomes(proof, config, dev) ==
    {[ok |-> verify_proof(proof, config, dev), panic |-> FALSE]}
        \cup (IF verify_proof_underflows(proof, config, dev)
              THEN {[ok |-> FALSE, panic |-> TRUE]} ELSE {})

\* zoro verify_full_inclusion_proof_with_options: TRUE for Ok
verify_full_inclusion_proof_with_options(proof, config, options) ==
    LET confirmations ==
            Max2(proof.chain_state.block_height - proof.block_height, 0) + 1
    IN /\ proof.block_height <= proof.chain_state.block_height
       /\ confirmations >= config.min_confirmations
       /\ (options.skip_block_proof
           \/ proof.block_inclusion_proof.block_height = proof.block_height)
       /\ (options.skip_chain_proof
           \/ zoro_verify_chain_state(proof.chain_state, proof.chain_state_proof,
                                      config).ok)
       /\ (options.skip_block_proof
           \/ verify_block_inclusion(proof.block_header, proof.block_inclusion_proof).ok)
       /\ proof.transaction_ok

(***************************************************************************)
(* The proofs presented to the verifiers.  The chain of n blocks has the   *)
(* headers HonestHeader(0..n-1); a forged chain differs in every header.   *)
(***************************************************************************)
HonestHeader(k) == (k % 2) + 1
ForgedHeader(k) == 3 - HonestHeader(k)

RECURSIVE HonestMMR(_)
HonestMMR(n) ==
    IF n = 0 THEN EmptyMMR
    ELSE BlockMMR_add_block_header(HonestMMR(n - 1), HonestHeader(n - 1))

RECURSIVE ForgedMMR(_)
ForgedMMR(n) ==
    IF n = 0 THEN EmptyMMR
    ELSE BlockMMR_add_block_header(ForgedMMR(n - 1), ForgedHeader(n - 1))

Tampers == {"none", "sibling", "short", "forged"}

\* the inclusion proof of block i of a chain of n blocks, as generated or
\* altered on its way to the verifier
PresentedProof(n, i, tamper) ==
    LET p == generate_proof(HonestMMR(n), i, NoCount).proof
    IN CASE tamper = "none" -> p
         [] tamper = "sibling" ->
                IF p.siblings_hashes = <<>> THEN p
                ELSE [p EXCEPT !.siblings_hashes[1] = GarbageHash]
         [] tamper = "short" ->
                [p EXCEPT !.siblings_hashes =
                              SubSeq(p.siblings_hashes, 1, Len(p.siblings_hashes) - 1)]
         [] OTHER -> generate_proof(ForgedMMR(n), i, NoCount).proof

HonestRoot(n) == get_root_hash(HonestMMR(n), NoCount).value

\* the public output of a recursive proof, and whether the STARK verifies;
\* the zoro task result carries no block MMR hash
TaskResults(chain_state, roots) ==
    [chain_state_hash : {blake2s_digest(chain_state),
                         blake2s_digest(VerChainState(chain_state.block_height + 1))},
     block_mmr_hash : roots,
     bootloader_hash : {ConfigBootloaderHash, OtherBootloaderHash, zero_hash},
     program_hash : {ConfigProgramHash, OtherProgramHash, zero_hash}]

ZoroTaskResults(chain_state) ==
    [chain_state_hash : {blake2s_digest(chain_state),
                         blake2s_digest(VerChainState(chain_state.block_height + 1))},
     bootloader_hash : {ConfigBootloaderHash, OtherBootloaderHash, zero_hash},
     program_hash : {ConfigProgramHash, OtherProgramHash, zero_hash}]

ChainStateProofs(task_results, sizes) ==
    [bootloader_hash : {ConfigBootloaderHash, OtherBootloaderHash},
     n_tasks : {1, 2},
     task_output_size : sizes,
     task_program_hash : {ConfigProgramHash, OtherProgramHash},
     task_result : task_results,
     valid : BOOLEAN]

\* recursive proofs that pass every check of their own
SoundChainStateProof(chain_state, root) ==
    [bootloader_hash |-> ConfigBootloaderHash, n_tasks |-> 1,
     task_output_size |-> RaitoConfig(DefaultMinWork).task_output_size,
     task_program_hash |-> ConfigProgramHash,
     task_result |-> [chain_state_hash |-> blake2s_digest(chain_state),
                      block_mmr_hash |-> root,
                      bootloader_hash |-> ConfigBootloaderHash,
                      program_hash |-> ConfigProgramHash],
     valid |-> TRUE]

ZoroSoundChainStateProof(chain_state) ==
    [bootloader_hash |-> ConfigBootloaderHash, n_tasks |-> 1,
     task_output_size |-> ZoroConfig.task_output_size,
     task_program_hash |-> ConfigProgramHash,
     task_result |-> [chain_state_hash |-> blake2s_digest(chain_state),
                      bootloader_hash |-> ConfigBootloaderHash,
                      program_hash |-> ConfigProgramHash],
     valid |-> TRUE]

NoCall == [call |-> "none", lineage |-> "none", ok |-> FALSE]

VerInit ==
    /\ IndexerIdle
    /\ prover = Idle
    /\ ser = Idle
    /\ fly = Idle
    /\ mmr = Idle
    /\ work = Idle
    /\ client = Idle
    /\ rpc = NoRequest
    /\ ver = NoCall

\* a call of raito verify_chain_state
RaitoVerifyChainState ==
    /\ ver = NoCall
    /\ \E chain_state_proof \in ChainStateProofs(
                                    TaskResults(VerChainState(2),
                                                {HonestRoot(3), GarbageHash}),
                                    {RaitoConfig(DefaultMinWork).task_output_size,
                                     ZoroConfig.task_output_size}) :
          ver' = [call |-> "verify_chain_state", lineage |-> "raito",
                  chain_state_proof |-> chain_state_proof,
                  config |-> RaitoConfig(DefaultMinWork),
                  ok |-> verify_chain_state(VerChainState(2), chain_state_proof,
                                            RaitoConfig(DefaultMinWork)).ok]
    /\ UNCHANGED <<ivars, ser, fly, prover, mmr, work, client, rpc>>

\* a call of zoro verify_chain_state
ZoroVerifyChainState ==
    /\ ver = NoCall
    /\ \E chain_state_proof \in ChainStateProofs(
                                    ZoroTaskResults(VerChainState(2)),
                                    {RaitoConfig(DefaultMinWork).task_output_size,
                                     ZoroConfig.task_output_size}) :
          ver' = [call |-> "verify_chain_state", lineage |-> "zoro",
                  chain_state_proof |-> chain_state_proof,
                  config |-> ZoroConfig,
                  ok |-> zoro_verify_chain_state(VerChainState(2), chain_state_proof,
                                                 ZoroConfig).ok]
    /\ UNCHANGED <<ivars, ser, fly, prover, mmr, work, client, rpc>>

\* a call of raito verify_proof
RaitoVerifyProof ==
    /\ ver = NoCall
    /\ \E n \in 1..MaxLeaves, header \in HeaderIds, tamper \in Tampers,
          transaction_ok \in BOOLEAN, dev \in BOOLEAN,
          min_work \in {BlockWorkUnits, DefaultMinWork} :
       \E i \in 0..(n - 1), tip \in {n - 2, n - 1, n} \cap Nat :
       \E chain_state_proof \in
              {SoundChainStateProof(VerChainState(tip), HonestRoot(n)),
               SoundChainStateProof(VerChainState(tip),
                                    get_root_hash(ForgedMMR(n), NoCount).value),
               [SoundChainStateProof(VerChainState(tip), HonestRoot(n))
                   EXCEPT !.valid = FALSE]} :
          LET proof == [chain_state |-> VerChainState(tip),
                        chain_state_proof |-> chain_state_proof,
                        block_header |-> header,
                        block_header_proof |-> PresentedProof(n, i, tamper),
                        transaction_ok |-> transaction_ok]
          IN \E outcome \in verify_proof_outcomes(proof, RaitoConfig(min_work), dev) :
                ver' = [call |-> "verify_proof", lineage |-> "raito",
                        proof |-> proof, config |-> RaitoConfig(min_work), dev |-> dev,
                        ok |-> outcome.ok, panic |-> outcome.panic]
    /\ UNCHANGED <<ivars, ser, fly, prover, mmr, work, client, rpc>>

\* a call of zoro verify_full_inclusion_proof_with_options; the FlyClient
\* MMR of an epoch starts at the epoch's activation height
ZoroVerifyFullInclusionProof ==
    /\ ver = NoCall
    /\ \E n \in 1..MaxLeaves, header \in HeaderIds, tamper \in Tampers,
          transaction_ok \in BOOLEAN, skip_chain_proof \in BOOLEAN,
          skip_block_proof \in BOOLEAN, valid \in BOOLEAN :
       \E i \in 0..(n - 1), claimed \in 0..1, confirmations \in {0, 5, 6} :
          LET block_height == HEARTWOOD_ACTIVATION + i
              chain_state == VerChainState(block_height + claimed + confirmations - 1)
              proof == [chain_state |-> chain_state,
                        chain_state_proof |->
                            [ZoroSoundChainStateProof(chain_state) EXCEPT !.valid = valid],
                        block_header |-> header,
                        block_height |-> block_height + claimed,
                        block_inclusion_proof |->
                            [block_height |-> block_height] @@ PresentedProof(n, i, tamper),
                        transaction_ok |-> transaction_ok]
              options == [skip_chain_proof |-> skip_chain_proof,
                          skip_block_proof |-> skip_block_proof]
          IN ver' = [call |-> "verify_proof", lineage |-> "zoro",
                     proof |-> proof, config |-> ZoroConfig, options |-> options,
                     dev |-> skip_chain_proof \/ skip_block_proof,
                     ok |-> verify_full_inclusion_proof_with_options(proof, ZoroConfig,
                                                                     options),
                     panic |-> FALSE]
    /\ UNCHANGED <<ivars, ser, fly, prover, mmr, work, client, rpc>>

VerNext ==
    \/ RaitoVerifyChainState
    \/ ZoroVerifyChainState
    \/ RaitoVerifyProof
    \/ ZoroVerifyFullInclusionProof

VerSpec == VerInit /\ [][VerNext]_vars

\* the inclusion check of a header against a proof: the MMR rebuilt from the
\* proof's peaks yields true for the header and the sibling path
InclusionCheck(header, proof) ==
    LET m == from_peaks(proof.peaks_hashes, proof.leaf_count)
    IN /\ m.ok
       /\ BlockMMR_verify_proof(m.mmr, header, proof).ok
       /\ BlockMMR_verify_proof(m.mmr, header, proof).value

PresentedInclusionProof ==
    IF ver.lineage = "raito" THEN ver.proof.block_header_proof
    ELSE ver.proof.block_inclusion_proof

\* C6: end-to-end verification succeeds only if the MMR inclusion check of
\* the block header against the block header proof evaluated to true.
C6_SuccessOnlyIfIncluded ==
    (ver.call = "verify_proof" /\ ver.ok /\ ~ver.dev) =>
        InclusionCheck(ver.proof.block_header, PresentedInclusionProof)

\* C7: in non-dev mode verification succeeds only if the root recomputed
\* from the inclusion proof's peaks equals the block MMR hash in the public
\* output of the recursive proof.
C7_SuccessOnlyIfRootsMatch ==
    (ver.call = "verify_proof" /\ ver.ok /\ ~ver.dev) =>
        /\ "block_mmr_hash" \in DOMAIN ver.proof.chain_state_proof.task_result
        /\ LET m == from_peaks(PresentedInclusionProof.peaks_hashes,
                               PresentedInclusionProof.leaf_count)
           IN /\ m.ok
              /\ get_root_hash(m.mmr, NoCount).value =
                     ver.proof.chain_state_proof.task_result.block_mmr_hash

\* C8 as stated: chain-state verification succeeds only if the task program
\* hash equals the configured one and the program hash carried in the task
\* result, and the bootloader hash equals the configured one and the carried
\* bootloader hash, whatever the carried hashes are.
C8_CarriedHashesAlwaysCompared ==
    (ver.call = "verify_chain_state" /\ ver.ok) =>
        /\ ver.chain_state_proof.task_program_hash = ver.config.task_program_hash
        /\ ver.chain_state_proof.task_program_hash =
               ver.chain_state_proof.task_result.program_hash
        /\ ver.chain_state_proof.bootloader_hash = ver.config.bootloader_hash
        /\ ver.chain_state_proof.bootloader_hash =
               ver.chain_state_proof.task_result.bootloader_hash

\* C8 amended: chain-state verification succeeds only if the task program
\* hash and the bootloader hash equal the configured ones, and each carried
\* hash equals the corresponding hash or, in the zoro verifier, is the zero
\* hash.
C8_CarriedHashesComparedUnlessZero ==
    (ver.call = "verify_chain_state" /\ ver.ok) =>
        /\ ver.chain_state_proof.task_program_hash = ver.config.task_program_hash
        /\ \/ ver.chain_state_proof.task_program_hash =
                  ver.chain_state_proof.task_result.program_hash
           \/ /\ ver.lineage = "zoro"
              /\ ver.chain_state_proof.task_result.program_hash = zero_hash
        /\ ver.chain_state_proof.bootloader_hash = ver.config.bootloader_hash
        /\ \/ ver.chain_state_proof.bootloader_hash =
                  ver.chain_state_proof.task_result.bootloader_hash
           \/ /\ ver.lineage = "zoro"
              /\ ver.chain_state_proof.task_result.bootloader_hash = zero_hash

\* C8 witness: the zoro verifier has accepted a proof whose carried program
\* hash is the zero hash, and the raito verifier is given the same hashes.
C8_Witness ==
    /\ ver.call = "verify_chain_state"
    /\ ver.lineage = "zoro"
    /\ ver.ok
    /\ ver.chain_state_proof.task_result.program_hash = zero_hash
    /\ ver.chain_state_proof.task_result.bootloader_hash = ConfigBootloaderHash

(***************************************************************************)
(* The node client (zoro-zcash-client, raito-bitcoin-client):              *)
(* wait_block_header, one action per await.  The node's tip only grows;    *)
(* getblockcount reports the tip height, and the node serves the header of *)
(* every height up to its tip.  A client is used with one lag, as the      *)
(* indexer does.                                                           *)
(***************************************************************************)
MaxTip == 3
MaxLag == 2

\* u32::saturating_sub
saturating_sub(a, b) == IF a >= b THEN a - b ELSE 0

\* the loop condition of wait_block_header on the cached value: chain_height
\* of the Zcash client, block_count of the Bitcoin client
must_wait(kind, height, cached) ==
    IF kind = "zcash" THEN height > cached ELSE height >= cached

ClientInit ==
    /\ IndexerIdle
    /\ prover = Idle
    /\ ser = Idle
    /\ fly = Idle
    /\ mmr = Idle
    /\ ver = Idle
    /\ work = Idle
    /\ rpc = NoRequest
    /\ \E kind \in {"zcash", "bitcoin"}, lag \in 0..MaxLag, tip \in 0..MaxTip :
          client = [kind |-> kind, lag |-> lag, tip |-> tip, cached |-> 0,
                    reported |-> 0, pc |-> "idle", height |-> 0]

\* the node's chain grows by a block
NodeGrows ==
    /\ client.tip < MaxTip
    /\ client' = [client EXCEPT !.tip = @ + 1]
    /\ UNCHANGED <<ivars, ser, fly, prover, mmr, ver, work, rpc>>

\* wait_block_header(height, lag) is called and evaluates the loop condition
WaitBlockHeaderCall ==
    /\ client.pc \in {"idle", "returned", "failed"}
    /\ \E height \in 0..MaxTip :
          client' = [client EXCEPT
                        !.height = height,
                        !.pc = IF must_wait(client.kind, height, client.cached)
                               THEN "poll" ELSE "fetch"]
    /\ UNCHANGED <<ivars, ser, fly, prover, mmr, ver, work, rpc>>

\* get_chain_height / get_block_count answers: the cached value becomes the
\* reported tip less the lag, and the loop breaks or sleeps
WaitBlockHeaderPoll ==
    /\ client.pc = "poll"
    /\ LET cached == saturating_sub(client.tip, client.lag)
       IN client' = [client EXCEPT
                        !.cached = cached,
                        !.reported = IF client.tip > @ THEN client.tip ELSE @,
                        !.pc = IF must_wait(client.kind, client.height, cached)
                               THEN "sleep" ELSE "fetch"]
    /\ UNCHANGED <<ivars, ser, fly, prover, mmr, ver, work, rpc>>

\* the tip poll fails: wait_block_header returns the error
WaitBlockHeaderPollFails ==
    /\ client.pc = "poll"
    /\ client' = [client EXCEPT !.pc = "failed"]
    /\ UNCHANGED <<ivars, ser, fly, prover, mmr, ver, work, rpc>>

\* the sleep ends and the loop condition is evaluated again
WaitBlockHeaderSleep ==
    /\ client.pc = "sleep"
    /\ client' = [client EXCEPT
                      !.pc = IF must_wait(client.kind, client.height, client.cached)
                             THEN "poll" ELSE "fetch"]
    /\ UNCHANGED <<ivars, ser, fly, prover, mmr, ver, work, rpc>>

\* get_block_header_by_height: the header, or the node's error for a height
\* above its tip
WaitBlockHeaderFetch ==
    /\ client.pc = "fetch"
    /\ client' = [client EXCEPT
                      !.pc = IF client.height <= client.tip THEN "returned" ELSE "failed"]
    /\ UNCHANGED <<ivars, ser, fly, prover, mmr, ver, work, rpc>>

ClientNext ==
    \/ NodeGrows
    \/ WaitBlockHeaderCall
    \/ WaitBlockHeaderPoll
    \/ WaitBlockHeaderPollFails
    \/ WaitBlockHeaderSleep
    \/ WaitBlockHeaderFetch

ClientSpec == ClientInit /\ [][ClientNext]_vars

\* C17: when wait_block_header(h, lag) has returned the header of h, a tip
\* poll of this client has been answered with a tip of at least h + lag
\* (client.reported is the largest tip a poll reported, 0 before any poll).
C17_HeaderOnlyAfterTipReported ==
    client.pc = "returned" => client.reported >= client.height + client.lag

(***************************************************************************)
(* The height-addressed handlers of the RPC server (rpc.rs):               *)
(* GET /chain_state/:height and GET /block_header/:height read the store   *)
(* while the indexer commits blocks to it.  A status code is written by    *)
(* its name in axum's StatusCode.                                          *)
(***************************************************************************)
\* SELECT header FROM block_headers WHERE height >= ? AND height < ?
get_block_headers(start_height, num_blocks) ==
    LET rows == {h \in DOMAIN db.block_headers :
                    h >= start_height /\ h < start_height + num_blocks}
        RECURSIVE InOrder(_)
        InOrder(S) ==
            IF S = {} THEN <<>>
            ELSE LET least == CHOOSE x \in S : \A y \in S : x <= y
                 IN <<db.block_headers[least]>> \o InOrder(S \ {least})
    IN InOrder(rows)

\* get_chain_state (handler): every Err of the store becomes a 500
rpc_get_chain_state(block_height, store_error) ==
    IF store_error \/ ~get_chain_state(block_height).ok
    THEN "INTERNAL_SERVER_ERROR"
    ELSE "OK"

\* get_block_header (handler): an Err and an empty result both become a 500
rpc_get_block_header(block_height, store_error) ==
    IF store_error THEN "INTERNAL_SERVER_ERROR"
    ELSE IF get_block_headers(block_height, 1) = <<>> THEN "INTERNAL_SERVER_ERROR"
    ELSE "OK"

\* the heights a request is made for: the rows the model holds and the first
\* height that is not indexed yet
RequestHeights ==
    DOMAIN db.chain_states
        \cup {IF get_latest_chain_state_height.ok
              THEN get_latest_chain_state_height.height + 1 ELSE 0}

RpcInit ==
    /\ variant \in {"raito", "zoro"}
    /\ \E start \in StartHeights : db = DatabaseAt(start)
    /\ prover = Idle
    /\ ser = Idle
    /\ fly = Idle
    /\ tx = NoTx
    /\ pc = "wait"
    /\ next_block_height = 0
    /\ current_state = genesis_state
    /\ block_header = None
    /\ shutdown = FALSE
    /\ runs = 0
    /\ log = <<>>
    /\ mmr = Idle
    /\ ver = Idle
    /\ work = Idle
    /\ client = Idle
    /\ rpc = NoRequest

\* the indexer commits the block after the latest one (begin, update, commit)
RpcIndexerCommits ==
    /\ first_height.ok
    /\ Cardinality(DOMAIN db.chain_states) <= MaxBlocks
    /\ \E header \in Headers :
          LET height == first_height.height
              r == new_state(restore(height).state, height, header)
          IN /\ r.ok
             /\ db' = [db EXCEPT !.chain_states = (height :> r.state) @@ @,
                                 !.block_headers = (height :> header) @@ @]
    /\ UNCHANGED <<variant, ser, fly, prover, tx, pc, next_block_height, current_state, block_header,
                   shutdown, runs, log, mmr, ver, work, client, rpc>>

\* GET /chain_state/:height; store_error is a failure of the connection or of
\* the decoding of the row
RpcGetChainState ==
    /\ \E block_height \in RequestHeights, store_error \in BOOLEAN :
          rpc' = [handler |-> "get_chain_state",
                  block_height |-> block_height,
                  indexed |-> block_height \in DOMAIN db.chain_states,
                  store_error |-> store_error,
                  status |-> rpc_get_chain_state(block_height, store_error)]
    /\ UNCHANGED <<ivars, ser, fly, prover, mmr, ver, work, client>>

\* GET /block_header/:height
RpcGetBlockHeader ==
    /\ \E block_height \in RequestHeights, store_error \in BOOLEAN :
          rpc' = [handler |-> "get_block_header",
                  block_height |-> block_height,
                  indexed |-> block_height \in DOMAIN db.block_headers,
                  store_error |-> store_error,
                  status |-> rpc_get_block_header(block_height, store_error)]
    /\ UNCHANGED <<ivars, ser, fly, prover, mmr, ver, work, client>>

RpcNext ==
    \/ RpcIndexerCommits
    \/ RpcGetChainState
    \/ RpcGetBlockHeader

RpcSpec == RpcInit /\ [][RpcNext]_vars

\* C21: a request for a block header or chain state at a height that is not
\* indexed yet is answered with 404, and 500 is returned only for store errors
C21_UnindexedHeightIs404 ==
    rpc # NoRequest =>
        /\ (~rpc.indexed /\ ~rpc.store_error => rpc.status = "NOT_FOUND")
        /\ (rpc.status = "INTERNAL_SERVER_ERROR" => rpc.store_error)

(***************************************************************************)
(* request_with_retry (raito-bitcoin-client/src/lib.rs and                 *)
(* zoro-zcash-client/src/lib.rs).  An error is its variant in the client's *)
(* error enum and, for RpcClient, the variant of the jsonrpsee error in    *)
(* it.  retry_notify of the backoff crate calls the operation, returns a   *)
(* permanent error at once, and for a transient one asks the backoff for   *)
(* the next delay: it sleeps and calls again, or returns the error when    *)
(* the backoff has run out (max_elapsed_time).                             *)
(***************************************************************************)
\* attempts followed in one call
MaxAttempts == 3

RpcErrors ==
    {"Transport", "RequestTimeout", "RestartNeeded", "ServiceDisconnect",
     "Call", "ParseError", "InvalidRequestId"}

ClientErrors ==
    {[variant |-> "RpcClient", rpc_err |-> e] : e \in RpcErrors}
        \cup {[variant |-> v, rpc_err |-> "none"] :
                 v \in {"InvalidHeader", "HexDecode", "Deserialization"}}

NoError == [variant |-> "none", rpc_err |-> "none"]

\* faulty variant, for testing the properties: every error is retried
is_retryable_error_always(err) == TRUE

is_retryable_error(err) ==
    IF err.variant = "RpcClient"
    THEN err.rpc_err \in {"Transport", "RequestTimeout", "RestartNeeded", "ServiceDisconnect"}
    ELSE FALSE

RetryInit ==
    /\ IndexerIdle
    /\ prover = Idle
    /\ ser = Idle
    /\ fly = Idle
    /\ mmr = Idle
    /\ ver = Idle
    /\ work = Idle
    /\ rpc = NoRequest
    /\ \E kind \in {"zcash", "bitcoin"} :
          client = [kind |-> kind, pc |-> "operation", outcomes |-> <<>>,
                    returned |-> FALSE, ok |-> FALSE, err |-> NoError]

\* operation().await returned Ok(result): retry_notify returns it
OperationSucceeds ==
    /\ client.pc = "operation"
    /\ client' = [client EXCEPT !.pc = "returned",
                                !.outcomes = Append(@, NoError),
                                !.returned = TRUE,
                                !.ok = TRUE]
    /\ UNCHANGED <<ivars, ser, fly, prover, mmr, ver, work, rpc>>

\* operation().await returned Err(err): transient or permanent
OperationFails ==
    /\ client.pc = "operation"
    /\ \E err \in ClientErrors :
          client' = IF is_retryable_error(err)
                    THEN [client EXCEPT !.pc = "transient",
                                        !.outcomes = Append(@, err),
                                        !.err = err]
                    ELSE [client EXCEPT !.pc = "returned",
                                        !.outcomes = Append(@, err),
                                        !.returned = TRUE,
                                        !.err = err]
    /\ UNCHANGED <<ivars, ser, fly, prover, mmr, ver, work, rpc>>

\* next_backoff() is Some(duration): notify, sleep, call the operation again
BackoffRetries ==
    /\ client.pc = "transient"
    /\ Len(client.outcomes) < MaxAttempts
    /\ client' = [client EXCEPT !.pc = "operation"]
    /\ UNCHANGED <<ivars, ser, fly, prover, mmr, ver, work, rpc>>

\* next_backoff() is None: the transient error is returned
BackoffExpires ==
    /\ client.pc = "transient"
    /\ client' = [client EXCEPT !.pc = "returned", !.returned = TRUE]
    /\ UNCHANGED <<ivars, ser, fly, prover, mmr, ver, work, rpc>>

RetryNext ==
    \/ OperationSucceeds
    \/ OperationFails
    \/ BackoffRetries
    \/ BackoffExpires

RetrySpec == RetryInit /\ [][RetryNext]_vars

\* C22: the operation is attempted again only after a transport-level failure
\* (Transport, RequestTimeout, RestartNeeded, ServiceDisconnect); any other
\* failure is returned to the caller by the attempt that met it, with no
\* further attempt
C22_RetryOnlyTransportFailures ==
    /\ \A i \in 1..(Len(client.outcomes) - 1) :
          /\ client.outcomes[i].variant = "RpcClient"
          /\ client.outcomes[i].rpc_err \in
                 {"Transport", "RequestTimeout", "RestartNeeded", "ServiceDisconnect"}
    /\ \A i \in 1..Len(client.outcomes) :
          LET e == client.outcomes[i]
          IN (/\ e # NoError
              /\ ~(e.variant = "RpcClient"
                   /\ e.rpc_err \in {"Transport", "RequestTimeout", "RestartNeeded",
                                     "ServiceDisconnect"}))
             => /\ i = Len(client.outcomes)
                /\ client.returned
                /\ ~client.ok
                /\ client.err = e

C22_Witness ==
    /\ client.returned
    /\ Len(client.outcomes) = 2
    /\ client.outcomes[1].rpc_err = "RequestTimeout"
    /\ client.err.rpc_err = "Call"

(***************************************************************************)
(* The batch prover (raito-assumevalid and zoro-assumevalid, prove.rs).    *)
(* The output directory is the set of its batch directories, a directory   *)
(* batch_<s>_to_<e> written <<s, e>>, and the set of those that hold a     *)
(* proof.json.  prover.args keeps what was serialized into each batch's    *)
(* arguments.json, prover.passed the batches current_height moved past.    *)
(***************************************************************************)
\* params.total_blocks and params.step_size range up to these
MaxTotalBlocks == 3
MaxStepSize == 2

NoPath == [found |-> FALSE, batch |-> <<0, 0>>]

\* the output directories a run can find: empty, an earlier batch proved, an
\* earlier batch proved and the next one left without a proof
OutputDirs ==
    {[dirs |-> {}, proofs |-> {}],
     [dirs |-> {<<0, 2>>}, proofs |-> {<<0, 2>>}],
     [dirs |-> {<<0, 2>>, <<2, 4>>}, proofs |-> {<<0, 2>>}]}

\* the highest end height among the batch directories holding a proof.json
auto_detect_start_height(proofs) ==
    IF proofs = {} THEN 0 ELSE Max({b[2] : b \in proofs})

\* the proof.json of a directory ending in _to_<start_height>; read_dir gives
\* the directories in no particular order and the first match is returned
find_proof_file(start_height, proofs) ==
    IF start_height = 0 THEN {NoPath}
    ELSE IF {b \in proofs : b[2] = start_height} = {} THEN {NoPath}
    ELSE {[found |-> TRUE, batch |-> b] : b \in {c \in proofs : c[2] = start_height}}

\* to_runner_args_hex, reduced to the chain_state_proof field of the view it
\* serializes: raito passes its argument on, zoro writes None
to_runner_args_hex(kind, chain_state_proof) ==
    IF kind = "zoro" THEN NoPath ELSE chain_state_proof

\* generate_assumevalid_args: the proof at chain_state_proof_path is read and
\* handed to to_runner_args_hex
generate_assumevalid_args(kind, chain_state_proof_path) ==
    to_runner_args_hex(kind, chain_state_proof_path)

ProveInit ==
    /\ IndexerIdle
    /\ ser = Idle
    /\ fly = Idle
    /\ mmr = Idle
    /\ ver = Idle
    /\ work = Idle
    /\ client = Idle
    /\ rpc = NoRequest
    /\ \E kind \in {"raito", "zoro"}, disk \in OutputDirs,
          total_blocks \in 1..MaxTotalBlocks, step_size \in 0..MaxStepSize :
          prover = [kind |-> kind,
                    dirs |-> disk.dirs,
                    proofs |-> disk.proofs,
                    total_blocks |-> total_blocks,
                    step_size |-> step_size,
                    pc |-> "start",
                    end_height |-> 0,
                    current_height |-> 0,
                    current_step |-> 0,
                    chain_state_proof_path |-> NoPath,
                    args |-> <<>>,
                    passed |-> {}]

\* prove: auto_detect_start_height, end_height, current_height
ProveStart ==
    /\ prover.pc = "start"
    /\ prover' = [prover EXCEPT
                     !.pc = "loop",
                     !.current_height = auto_detect_start_height(prover.proofs),
                     !.end_height = auto_detect_start_height(prover.proofs)
                                        + prover.total_blocks]
    /\ UNCHANGED <<ivars, ser, fly, mmr, ver, work, client, rpc>>

\* the head of the loop: leave it, or create the batch directory and look
\* for the previous proof
ProveBatchBegin ==
    /\ prover.pc = "loop"
    /\ LET current_step == Min(prover.step_size, prover.end_height - prover.current_height)
       IN IF prover.current_height >= prover.end_height \/ current_step = 0
          THEN prover' = [prover EXCEPT !.pc = "done"]
          ELSE \E path \in find_proof_file(prover.current_height, prover.proofs) :
                  prover' = [prover EXCEPT
                      !.pc = "args",
                      !.current_step = current_step,
                      !.dirs = @ \cup {<<prover.current_height,
                                         prover.current_height + current_step>>},
                      !.chain_state_proof_path = path]
    /\ UNCHANGED <<ivars, ser, fly, mmr, ver, work, client, rpc>>

\* generate_and_save_args wrote arguments.json
ProveGenerateArgs ==
    /\ prover.pc = "args"
    /\ prover' = [prover EXCEPT
          !.pc = "prove",
          !.args = Append(@,
              [start_height |-> prover.current_height,
               predecessor |-> prover.current_height # 0
                   /\ \E b \in prover.proofs : b[2] = prover.current_height,
               chain_state_proof |->
                   generate_assumevalid_args(prover.kind, prover.chain_state_proof_path)])]
    /\ UNCHANGED <<ivars, ser, fly, mmr, ver, work, client, rpc>>

\* generate_and_save_args returned Err (the bridge node, the proof file, the
\* write): prove returns it
ProveGenerateArgsFails ==
    /\ prover.pc = "args"
    /\ prover' = [prover EXCEPT !.pc = "failed"]
    /\ UNCHANGED <<ivars, ser, fly, mmr, ver, work, client, rpc>>

\* the batch's prover returned Ok.  zoro: create_and_serialize_proof wrote
\* proof.json.  raito: stwo_run_and_prove exited with success, and proof.json
\* exists if a proof_*_success file was found and renamed (renamed = TRUE).
ProveBatchOk ==
    /\ prover.pc = "prove"
    /\ \E renamed \in (IF prover.kind = "raito" THEN BOOLEAN ELSE {TRUE}) :
          LET batch == <<prover.current_height,
                         prover.current_height + prover.current_step>>
          IN prover' = [prover EXCEPT
                 !.pc = "loop",
                 !.proofs = IF renamed THEN @ \cup {batch} ELSE @,
                 !.passed = @ \cup {batch},
                 !.current_height = @ + prover.current_step]
    /\ UNCHANGED <<ivars, ser, fly, mmr, ver, work, client, rpc>>

\* the batch's prover returned Err (the VM, the adapter, the prover, a
\* non-zero exit): prove returns it
ProveBatchErr ==
    /\ prover.pc = "prove"
    /\ prover' = [prover EXCEPT !.pc = "failed"]
    /\ UNCHANGED <<ivars, ser, fly, mmr, ver, work, client, rpc>>

ProveNext ==
    \/ ProveStart
    \/ ProveBatchBegin
    \/ ProveGenerateArgs
    \/ ProveGenerateArgsFails
    \/ ProveBatchOk
    \/ ProveBatchErr

ProveSpec == ProveInit /\ [][ProveNext]_vars

\* C23: the current height advances past a batch only when that batch's
\* proof.json exists; a batch for which no proof file was produced makes prove
\* return an error without advancing and without starting a later batch
C23_AdvanceOnlyWithProof ==
    prover # Idle => \A batch \in prover.passed : batch \in prover.proofs

\* C24: for every batch whose start_height has a predecessor proof file on
\* disk (a directory ending in _to_<start_height> holding proof.json), the
\* serialized arguments contain that proof (chain_state_proof is not None)
C24_PredecessorProofInArgs ==
    prover # Idle =>
        \A i \in 1..Len(prover.args) :
            prover.args[i].predecessor => prover.args[i].chain_state_proof.found

(***************************************************************************)
(* ChainStateManager::update as its callers can use it (chain_state.rs):   *)
(* a manager restored from the store, inside an open transaction, is       *)
(* called with any height and any header.  log keeps the calls: the        *)
(* arguments, the manager's state before and after, whether Ok was         *)
(* returned and whether a chain state row was inserted.                    *)
(***************************************************************************)
\* calls of update followed on one manager
MaxCalls == 2

\* the pow_target_history of the stored state the manager is restored with:
\* as the node writes it (17 entries), empty, partially filled; at height 0
\* restore takes genesis_state() and reads no row
Histories == {"stored", "empty", "partial"}

with_history(state, history) ==
    [state EXCEPT !.pow_target_history =
        IF history = "empty" THEN <<>>
        ELSE IF history = "partial" THEN SubSeq(@, 1, 3)
        ELSE @]

\* the heights update is called with: 0, the manager's height, the next one
\* and the one after it
CallHeights ==
    {0, current_state.block_height, current_state.block_height + 1,
     current_state.block_height + 2}

\* a height below the rows the model holds: its row exists in the database
\* and the INSERT violates the primary key
older_row(height) ==
    /\ DOMAIN db.chain_states # {}
    /\ \A h \in DOMAIN db.chain_states : height < h

ManagerInit ==
    /\ variant = "raito"
    /\ \E start \in StartHeights :
       \E history \in (IF start = 0 THEN {"stored"} ELSE Histories) :
          /\ db = DatabaseAt(start)
          /\ current_state = with_history(restore(start).state, history)
    /\ tx = [NoTx EXCEPT !.open = TRUE]
    /\ pc = "begun"
    /\ next_block_height = 0
    /\ block_header = None
    /\ shutdown = FALSE
    /\ runs = 0
    /\ log = <<>>
    /\ mmr = Idle
    /\ ver = Idle
    /\ work = Idle
    /\ client = Idle
    /\ rpc = NoRequest
    /\ prover = Idle
    /\ ser = Idle
    /\ fly = Idle

\* update(block_height, block_header)
ManagerUpdate ==
    /\ Len(log) < MaxCalls
    /\ \E height \in CallHeights, header \in Headers :
          LET r == new_state(current_state, height, header)
              a == add_chain_state(height, r.state)
              b == add_block_header(a.tx, height, header)
              inserted == r.ok /\ ~older_row(height) /\ a.ok
              ok == inserted /\ b.ok
          IN /\ tx' = IF ok THEN b.tx ELSE IF inserted THEN a.tx ELSE tx
             /\ current_state' = IF ok THEN r.state ELSE current_state
             /\ block_header' = header
             /\ log' = Append(log,
                    [height |-> height,
                     before |-> current_state,
                     ok |-> ok,
                     inserted |-> inserted,
                     row |-> r.state,
                     after |-> IF ok THEN r.state ELSE current_state])
    /\ UNCHANGED <<variant, ser, fly, db, pc, next_block_height, shutdown, runs,
                   mmr, ver, work, client, rpc, prover>>

ManagerNext == ManagerUpdate

ManagerSpec == ManagerInit /\ [][ManagerNext]_vars

\* C25: every call update(height, header) with height > 0 that succeeds has
\* height = current block_height + 1; a call with any other height is rejected
\* and persists nothing
C25_UpdateOnlyAtNextHeight ==
    \A i \in 1..Len(log) :
        (log[i].height > 0 /\ log[i].height # log[i].before.block_height + 1)
            => (~log[i].ok /\ ~log[i].inserted)

\* C26: a state produced by update at height > 0 has at most
\* POW_AVERAGING_WINDOW entries in pow_target_history, whatever the history
\* before; from an empty history the result is exactly POW_AVERAGING_WINDOW
\* copies of the new current_target
C26_TargetHistoryBounded ==
    \A i \in 1..Len(log) :
        (log[i].ok /\ log[i].height > 0) =>
            /\ Len(log[i].after.pow_target_history) <= POW_AVERAGING_WINDOW
            /\ (log[i].before.pow_target_history = <<>> =>
                   log[i].after.pow_target_history =
                       Copies(POW_AVERAGING_WINDOW, log[i].after.current_target))

\* C29: update(0, header) persists at height 0 exactly the genesis state, for
\* every header and every state the manager held before, and leaves the
\* manager's current state equal to the genesis state
C29_HeightZeroPersistsGenesis ==
    \A i \in 1..Len(log) :
        (log[i].height = 0 /\ log[i].inserted) =>
            /\ log[i].row = genesis_state
            /\ log[i].after = genesis_state

(***************************************************************************)
(* Properties of the committed chain states (Spec): the epoch start and    *)
(* the timestamp window.                                                   *)
(***************************************************************************)
\* C27 as stated: for every committed height h, if h mod 2016 = 0 the stored
\* epoch_start_time equals header_h.time, otherwise it equals the
\* epoch_start_time of the state at h - 1
C27_EpochStartAtEveryBoundary ==
    \A h \in CommittedHeights :
        h \in DOMAIN db.block_headers =>
            IF h % BLOCKS_PER_EPOCH = 0
            THEN db.chain_states[h].epoch_start_time = db.block_headers[h].time
            ELSE (h - 1) \in CommittedHeights =>
                     db.chain_states[h].epoch_start_time =
                         db.chain_states[h - 1].epoch_start_time

\* C27, amended: the rule holds for every committed height h > 0; at height 0
\* the stored epoch_start_time is the one of the genesis state, whatever the
\* time of the header at height 0
C27_EpochStartAboveGenesis ==
    \A h \in CommittedHeights :
        h \in DOMAIN db.block_headers =>
            IF h = 0
            THEN db.chain_states[h].epoch_start_time = GENESIS_TIME
            ELSE IF h % BLOCKS_PER_EPOCH = 0
            THEN db.chain_states[h].epoch_start_time = db.block_headers[h].time
            ELSE (h - 1) \in CommittedHeights =>
                     db.chain_states[h].epoch_start_time =
                         db.chain_states[h - 1].epoch_start_time

\* C27 witness: the first block of an epoch and the block after it were
\* committed by the indexer, and the epoch start changed at the boundary
C27_Witness ==
    /\ \E k \in 1..Len(log) : log[k].height = BLOCKS_PER_EPOCH
    /\ \E k \in 1..Len(log) : log[k].height = BLOCKS_PER_EPOCH + 1
    /\ {BLOCKS_PER_EPOCH - 1, BLOCKS_PER_EPOCH, BLOCKS_PER_EPOCH + 1} \subseteq CommittedHeights
    /\ db.chain_states[BLOCKS_PER_EPOCH].epoch_start_time
           # db.chain_states[BLOCKS_PER_EPOCH - 1].epoch_start_time
    /\ db.block_headers[BLOCKS_PER_EPOCH + 1].time
           # db.chain_states[BLOCKS_PER_EPOCH + 1].epoch_start_time

\* C28: for every committed height h > 0, prev_timestamps of h is
\* prev_timestamps of h - 1 with header_h.time appended and, when the
\* predecessor already held MAX_TIMESTAMP_HISTORY entries, its oldest entry
\* removed; the window never exceeds MAX_TIMESTAMP_HISTORY entries, keeps the
\* order and ends with header_h.time
C28_TimestampWindowSlides ==
    \A h \in CommittedHeights :
        (h > 0 /\ (h - 1) \in CommittedHeights /\ h \in DOMAIN db.block_headers) =>
            LET before == db.chain_states[h - 1].prev_timestamps
                window == db.chain_states[h].prev_timestamps
                time == db.block_headers[h].time
                kept == IF Len(before) = MAX_TIMESTAMP_HISTORY
                        THEN SubSeq(before, 2, Len(before)) ELSE before
            IN /\ Len(window) = Len(kept) + 1
               /\ \A i \in 1..Len(kept) : window[i] = kept[i]
               /\ window[Len(window)] = time
               /\ Len(window) <= MAX_TIMESTAMP_HISTORY

\* C28 witness: the indexer committed a block onto a full window, whose oldest
\* entry was evicted
C28_Witness ==
    \E h \in CommittedHeights :
        /\ h > 0
        /\ (h - 1) \in CommittedHeights
        /\ \E k \in 1..Len(log) : log[k].height = h
        /\ Len(db.chain_states[h - 1].prev_timestamps) = MAX_TIMESTAMP_HISTORY
        /\ Len(db.chain_states[h].prev_timestamps) = MAX_TIMESTAMP_HISTORY
        /\ db.chain_states[h].prev_timestamps[1] = db.chain_states[h - 1].prev_timestamps[2]

(***************************************************************************)
(* The sparse roots against the mountains of the MMR.  The peak of height  *)
(* h of an MMR of n leaves is the root of the perfect tree over the 2^h    *)
(* leaves that follow the leaves of the higher mountains.                  *)
(***************************************************************************)
BitSet(n, h) == (n \div Pow2(h)) % 2 = 1

\* the root of the perfect tree over leaves first .. first + count - 1
RECURSIVE MountainRoot(_, _, _)
MountainRoot(headers, first, count) ==
    IF count = 1 THEN block_header_digest(headers[first])
    ELSE hash(<<MountainRoot(headers, first, count \div 2),
                MountainRoot(headers, first + count \div 2, count \div 2)>>)

PeakOfHeight(headers, n, h) ==
    MountainRoot(headers, (n \div Pow2(h + 1)) * Pow2(h + 1) + 1, Pow2(h))

\* C30: for n > 0 leaves the roots vector of get_sparse_roots(None) ends with
\* the zero digest, and its entry at index h (below the last) is non-zero
\* exactly when bit h of n is set, in which case it is the peak of height h of
\* the MMR; every other entry is the zero digest and every set bit of n has
\* its entry.
C30_SparseRootsFollowBitsOfN ==
    SparseRootsOfAll =>
        LET n == mmr.roots.block_count
            roots == mmr.roots.result.value.roots
        IN /\ mmr.roots.result.ok
           /\ Len(roots) >= 2
           /\ roots[Len(roots)] = null_root
           /\ \A h \in 0..(Len(roots) - 2) :
                  /\ (roots[h + 1] # null_root) <=> BitSet(n, h)
                  /\ BitSet(n, h) => roots[h + 1] = PeakOfHeight(mmr.headers, n, h)
           /\ \A h \in 0..n : BitSet(n, h) => h <= Len(roots) - 2

\* C30 witness: the sparse roots of an MMR of five leaves were returned: the
\* peaks of heights 0 and 2 with zero digests at index 1 and at the end
C30_Witness ==
    /\ SparseRootsOfAll
    /\ mmr.roots.block_count = 5
    /\ mmr.roots.result.ok
    /\ Len(mmr.roots.result.value.roots) = 4
    /\ mmr.roots.result.value.roots[1] = PeakOfHeight(mmr.headers, 5, 0)
    /\ mmr.roots.result.value.roots[2] = null_root
    /\ mmr.roots.result.value.roots[3] = PeakOfHeight(mmr.headers, 5, 2)
    /\ mmr.roots.result.value.roots[4] = null_root

(***************************************************************************)
(* wait_block_header when every RPC call succeeds: the awaits of the loop  *)
(* complete (the node answers, the tokio timer fires), the node's chain    *)
(* may stop growing at any height.                                         *)
(***************************************************************************)
ClientLiveNext ==
    \/ NodeGrows
    \/ WaitBlockHeaderCall
    \/ WaitBlockHeaderPoll
    \/ WaitBlockHeaderSleep
    \/ WaitBlockHeaderFetch

ClientLiveSpec ==
    /\ ClientInit
    /\ [][ClientLiveNext]_vars
    /\ WF_vars(WaitBlockHeaderPoll)
    /\ WF_vars(WaitBlockHeaderSleep)
    /\ WF_vars(WaitBlockHeaderFetch)

\* wait_block_header(height, lag) is in flight
Waiting == client.pc \in {"poll", "sleep", "fetch"}

\* C31: while wait_block_header(next_height, lag) is in flight and the node's
\* tip is at least next_height + lag, the call eventually returns the header of
\* next_height (the tip never shrinks, so it stays at least next_height + lag).
C31_ReturnsOnceTipReachesLag ==
    (Waiting /\ client.tip >= client.height + client.lag) ~> (client.pc = "returned")

(***************************************************************************)
(* The indexer under the scheduling of its loop.  Every await of an        *)
(* iteration completes (with Ok or Err), so each step is weakly fair.  The *)
(* select polls both arms when it is entered: a wait_block_header future   *)
(* polled for the first time has its RPC request still to send and is      *)
(* pending, while recv() on a channel that holds the message is ready, so  *)
(* a select entered after the broadcast takes the shutdown arm.  Strong    *)
(* fairness of the shutdown arm states no more than that.  The node may    *)
(* never serve another header, and the process may be killed at any time.  *)
(* The signal belongs to one run of the process (a restart opens a new      *)
(* channel), so the specification follows the process from its first start *)
(* to the end of that run.                                                 *)
(***************************************************************************)
FirstStart == runs = 0 /\ Start

ShutdownNext ==
    \/ FirstStart
    \/ WaitBlockHeader
    \/ WaitBlockHeaderFails
    \/ ShutdownReceived
    \/ Begin
    \/ UpdateAddChainState
    \/ UpdateAddBlockHeader
    \/ Commit
    \/ FlyclientAppend
    \/ Shutdown
    \/ Crash
    \/ GetHead

ShutdownSpec ==
    /\ Init
    /\ [][ShutdownNext]_vars
    /\ WF_vars(Begin)
    /\ WF_vars(UpdateAddChainState)
    /\ WF_vars(UpdateAddBlockHeader)
    /\ WF_vars(Commit)
    /\ WF_vars(FlyclientAppend)
    /\ SF_vars(ShutdownReceived)

\* the run ended otherwise: a step returned an error or panicked, or the
\* process was killed
RunAborted == pc \in {"failed", "panicked", "stopped"}

\* C32: once the shutdown signal is broadcast, the indexer eventually returns
\* Ok (pc = "done"), wherever in its loop the signal found it, unless a step
\* of the iteration in flight fails or the process is killed.
C32_ShutdownTerminatesCleanly ==
    shutdown ~> (pc = "done" \/ RunAborted)

\* C32 witness: the signal has been broadcast while the indexer is in the
\* middle of an iteration, its transaction open and the block not committed
C32_Witness ==
    /\ shutdown
    /\ pc = "updated"
    /\ tx.open
    /\ next_block_height \notin CommittedHeights

\* the batches proven in this run of prove tile [first, last) in steps of
\* step_size, the last one truncated to last
TilesInSteps(batches, first, last, step_size) ==
    /\ \A b \in batches :
           /\ first <= b[1] /\ b[1] < b[2] /\ b[2] <= last
           /\ \/ b[2] - b[1] = step_size
              \/ b[2] = last /\ b[2] - b[1] < step_size
    /\ \A h \in first..(last - 1) :
           Cardinality({b \in batches : b[1] <= h /\ h < b[2]}) = 1

\* C33: when prove returns Ok, exactly total_blocks blocks from the detected
\* start height on have been proven, in contiguous non-overlapping batches of
\* step_size blocks, the last one truncated to the end height.
C33_OkAfterAllBlocksProven ==
    prover.pc = "done" =>
        TilesInSteps(prover.passed, prover.end_height - prover.total_blocks,
                     prover.end_height, prover.step_size)

(***************************************************************************)
(* The order of the fields in the word vector of the chain-state digest.   *)
(***************************************************************************)
WordsOfField(chain_state, f) ==
    IF f \in {"prev_timestamps", "pow_target_history"}
    THEN chain_state[f] ELSE <<chain_state[f]>>

RECURSIVE WordsInOrder(_, _)
WordsInOrder(chain_state, fields) ==
    IF fields = <<>> THEN <<>>
    ELSE WordsOfField(chain_state, Head(fields)) \o WordsInOrder(chain_state, Tail(fields))

\* C34 as stated: the digest of the chain state a proof presents is the hash
\* of its fields in the order block_height, total_work, best_block_hash,
\* current_target, epoch_start_time, prev_timestamps, pow_target_history.
C34_EpochStartBeforeTimestamps ==
    ver.call = "verify_proof" =>
        blake2s_digest(ver.proof.chain_state) =
            Blake2sHasher(WordsInOrder(ver.proof.chain_state,
                <<"block_height", "total_work", "best_block_hash", "current_target",
                  "epoch_start_time", "prev_timestamps", "pow_target_history">>))

\* C34 amended: the digest of the chain state a proof presents is the hash of
\* its fields in the order block_height, total_work, best_block_hash,
\* current_target, prev_timestamps, pow_target_history, epoch_start_time:
\* epoch_start_time comes last.
C34_EpochStartLast ==
    ver.call = "verify_proof" =>
        blake2s_digest(ver.proof.chain_state) =
            Blake2sHasher(WordsInOrder(ver.proof.chain_state,
                <<"block_height", "total_work", "best_block_hash", "current_target",
                  "prev_timestamps", "pow_target_history", "epoch_start_time">>))

\* C34 witness: a proof was accepted whose chain state has a full target
\* history and an epoch start time other than its timestamps, the digest its
\* recursive proof carries being the hash with epoch_start_time last
C34_Witness ==
    /\ ver.call = "verify_proof"
    /\ ver.ok
    /\ Len(ver.proof.chain_state.pow_target_history) = POW_AVERAGING_WINDOW
    /\ \A i \in DOMAIN ver.proof.chain_state.prev_timestamps :
           ver.proof.chain_state.prev_timestamps[i] # ver.proof.chain_state.epoch_start_time
    /\ ver.proof.chain_state_proof.task_result.chain_state_hash =
           Blake2sHasher(WordsInOrder(ver.proof.chain_state,
               <<"block_height", "total_work", "best_block_hash", "current_target",
                 "prev_timestamps", "pow_target_history", "epoch_start_time">>))

(***************************************************************************)
(* The u256 argument serializers (raito-cairo-serialize, zoro-assumevalid  *)
(* adapters): U256String and U256StringLittleEndian.  A BigUint is the     *)
(* sequence of its big-endian bytes without leading zeros, <<0>> for zero  *)
(* (to_bytes_be); a FieldElement below 2^128 is written the same way.      *)
(***************************************************************************)
U128Bytes == 16
U256Bytes == 32
\* the longest value drawn, one byte beyond a u256
MaxValueBytes == 33

ValueBytes(len, lead, fill) ==
    [i \in 1..len |-> IF i = 1 THEN lead
                      ELSE IF fill = "zeros" THEN 0
                      ELSE IF fill = "ones" THEN 255 ELSE i]

\* the parsed decimal strings: zero, and values of one byte up to
\* MaxValueBytes bytes around the 128-bit and the 256-bit boundary
Values ==
    {<<0>>} \cup
    {ValueBytes(len, lead, fill) :
        len \in {1, 2, U128Bytes - 1, U128Bytes, U128Bytes + 1, U256Bytes - 1}
                 \cup (U256Bytes..MaxValueBytes),
        lead \in {1, 128, 255}, fill \in {"zeros", "ones", "index"}}

\* FieldElement::from_bytes_be: the number the bytes denote
RECURSIVE from_bytes_be(_)
from_bytes_be(bytes) ==
    IF Len(bytes) > 1 /\ bytes[1] = 0 THEN from_bytes_be(Tail(bytes)) ELSE bytes

\* slice::split_at
split_at(bytes, mid) == <<SubSeq(bytes, 1, mid), SubSeq(bytes, mid + 1, Len(bytes))>>

\* a 16-byte half copied into the low end of a zeroed 32-byte buffer
half_to_felt(half) == from_bytes_be(Copies(U256Bytes - U128Bytes, 0) \o half)

NoFelts == [ok |-> FALSE, output |-> <<>>]

\* U256String::serialize; ok is FALSE for the panic of the length assertion
U256String_serialize(n) ==
    IF Len(n) > U256Bytes THEN NoFelts
    ELSE LET be == Copies(U256Bytes - Len(n), 0) \o n
             hi16 == split_at(be, U128Bytes)[1]
             lo16 == split_at(be, U128Bytes)[2]
         IN [ok |-> TRUE, output |-> <<half_to_felt(lo16), half_to_felt(hi16)>>]

\* faulty variant, for testing the properties: the halves are bound as their
\* names say, and the half named lo is pushed first
U256StringLittleEndian_serialize_low_first(n) ==
    IF Len(n) > U256Bytes THEN NoFelts
    ELSE LET be == Copies(U256Bytes - Len(n), 0) \o n
             hi16 == split_at(be, U128Bytes)[1]
             lo16 == split_at(be, U128Bytes)[2]
         IN [ok |-> TRUE, output |-> <<half_to_felt(lo16), half_to_felt(hi16)>>]

\* U256StringLittleEndian::serialize: lo16 is bound to the first 16 bytes of
\* the big-endian buffer, hi16 to the last 16, and lo is pushed first
U256StringLittleEndian_serialize(n) ==
    IF Len(n) > U256Bytes THEN NoFelts
    ELSE LET be == Copies(U256Bytes - Len(n), 0) \o n
             lo16 == split_at(be, U128Bytes)[1]
             hi16 == split_at(be, U128Bytes)[2]
         IN [ok |-> TRUE, output |-> <<half_to_felt(lo16), half_to_felt(hi16)>>]

SerInit ==
    /\ IndexerIdle
    /\ prover = Idle
    /\ fly = Idle
    /\ mmr = Idle
    /\ ver = Idle
    /\ work = Idle
    /\ client = Idle
    /\ rpc = NoRequest
    /\ \E n \in Values : ser = [n |-> n, type |-> "none", result |-> NoFelts]

\* U256String(n).serialize(&mut output) on an empty output
SerializeU256String ==
    /\ ser' = [ser EXCEPT !.type = "U256String", !.result = U256String_serialize(ser.n)]
    /\ UNCHANGED <<ivars, fly, prover, mmr, ver, work, client, rpc>>

\* U256StringLittleEndian(n).serialize(&mut output) on an empty output
SerializeU256StringLittleEndian ==
    /\ ser' = [ser EXCEPT !.type = "U256StringLittleEndian",
                          !.result = U256StringLittleEndian_serialize(ser.n)]
    /\ UNCHANGED <<ivars, fly, prover, mmr, ver, work, client, rpc>>

SerNext ==
    \/ SerializeU256String
    \/ SerializeU256StringLittleEndian

SerSpec == SerInit /\ [][SerNext]_vars

\* the halves of a value: n mod 2^128 and n div 2^128
LowHalf(n) ==
    from_bytes_be(IF Len(n) > U128Bytes THEN SubSeq(n, Len(n) - U128Bytes + 1, Len(n)) ELSE n)
HighHalf(n) == IF Len(n) > U128Bytes THEN SubSeq(n, 1, Len(n) - U128Bytes) ELSE <<0>>

\* C35: for every value of at most 256 bits each serializer emits exactly two
\* field elements, the value's 128-bit halves: U256String the
\* least-significant half first, U256StringLittleEndian the most-significant
\* half first.
C35_HalvesInOppositeOrders ==
    (ser.type # "none" /\ Len(ser.n) <= U256Bytes) =>
        /\ ser.result.ok
        /\ Len(ser.result.output) = 2
        /\ ser.type = "U256String" =>
               ser.result.output = <<LowHalf(ser.n), HighHalf(ser.n)>>
        /\ ser.type = "U256StringLittleEndian" =>
               ser.result.output = <<HighHalf(ser.n), LowHalf(ser.n)>>

\* C35 witness: U256StringLittleEndian has serialized a value of 32 bytes
\* whose halves differ, the most-significant half first
C35_Witness ==
    /\ ser.type = "U256StringLittleEndian"
    /\ Len(ser.n) = U256Bytes
    /\ ser.result.ok
    /\ ser.result.output[1] = HighHalf(ser.n)
    /\ ser.result.output[1] # ser.result.output[2]

(***************************************************************************)
(* The leaves of the epoch MMRs against the heights the indexer has        *)
(* processed.                                                              *)
(***************************************************************************)
\* epoch_start_height (rpc.rs)
epoch_start_height(height) ==
    IF height >= NU5_ACTIVATION THEN NU5_ACTIVATION
    ELSE IF height >= CANOPY_ACTIVATION THEN CANOPY_ACTIVATION
    ELSE HEARTWOOD_ACTIVATION

\* the indexer has advanced past h: a later height is committed, or the
\* running indexer's next height is above h
AdvancedPast(h) ==
    \/ \E later \in CommittedHeights : later > h
    \/ pc \notin NotRunning /\ next_block_height > h

\* C36: in the zoro indexer, once it has advanced past a committed height
\* h >= HEARTWOOD_ACTIVATION, the FlyClient MMR of h's epoch holds block h as
\* its leaf number h - epoch_start_height(h), the leaf generate_block_inclusion_proof
\* addresses.
C36_EpochLeafIndexIsHeightOffset ==
    variant = "zoro" =>
        \A h \in CommittedHeights :
            (h >= HEARTWOOD_ACTIVATION /\ AdvancedPast(h)) =>
                LET leaves == db.flyclient[epoch_name_for_height(h)]
                    leaf_index == h - epoch_start_height(h)
                IN /\ leaf_index + 1 <= Len(leaves)
                   /\ leaves[leaf_index + 1] = h

(***************************************************************************)
(* turboboosted-flyclient, block_mmr: the store-level MMR (append_leaf,    *)
(* compute_root_from_store), the zcash_history tree the proofs are         *)
(* generated from, and ZcashInclusionProof::verify.  zcash_history is an   *)
(* external crate: its Tree is modelled by the algorithm of                *)
(* Tree::append_leaf (stored entries at consecutive positions, equal-sized *)
(* peaks merged, the peaks bagged left to right into generated nodes), and *)
(* V1::combine and V1::hash as injective term constructors.                *)
(***************************************************************************)
MaxFlyLeaves == 7
FlyLeafData == {1, 2}

\* test_node / node_data_from_parts: a leaf NodeData, named by its block hash
test_node(d) == <<d>>

\* combine_nodes = V1::combine, free of collisions: a prefix term over the
\* two children (the mutant keeps the left child only)
combine_nodes_left_only(left, right) == <<0 - 2>> \o left
combine_nodes(left, right) == <<0 - 2>> \o left \o right

\* V1::hash of a node
V1_hash(node) == <<0 - 3>> \o node

\* Option<[u8; 32]>::None
NoneRoot == <<>>

\* pos_height: (n & (n + 1)) == 0 says n is 2^k - 1; 32 - leading_zeros is
\* the bit length
RECURSIVE pos_height(_)
pos_height(pos) ==
    LET n == pos + 1 IN
    IF Pow2(bit_length(n)) = n + 1
    THEN count_ones(n) - 1
    ELSE pos_height(pos - (Pow2(bit_length(n) - 1) - 1))

\* NodeStore::get on a store holding positions 0..len-1
StoreHas(store, pos) == pos >= 0 /\ pos < Len(store)

\* append_leaf: the merge loop, and the whole function
RECURSIVE AppendLeafMerge(_, _, _, _)
AppendLeafMerge(store, pos, current, height) ==
    IF pos_height(pos) > height
    THEN LET left_pos == pos - Pow2(height + 1)
             parent == combine_nodes(store[left_pos + 1], current)
         IN AppendLeafMerge(Append(store, parent), pos + 1, parent, height + 1)
    ELSE store

append_leaf(store, leaf) ==
    AppendLeafMerge(Append(store, leaf), Len(store) + 1, leaf, 0)

\* get_peak_positions: the loop stops at the first tree that does not fit
RECURSIVE PeakPositionsLoop(_, _, _)
PeakPositionsLoop(peaks, pos, remaining) ==
    IF remaining > 0
    THEN LET height == bit_length(remaining) - 1
             tree_size == Pow2(height + 1) - 1
         IN IF tree_size <= remaining
            THEN PeakPositionsLoop(Append(peaks, pos + tree_size - 1),
                                   pos + tree_size, remaining - tree_size)
            ELSE peaks
    ELSE peaks

get_peak_positions(size) == PeakPositionsLoop(<<>>, 0, size)

\* the bagging loop of compute_root_from_store: pop right, pop left, push
\* their parent
RECURSIVE BagFromRight(_)
BagFromRight(peak_nodes) ==
    IF Len(peak_nodes) > 1
    THEN LET right == peak_nodes[Len(peak_nodes)]
             left == peak_nodes[Len(peak_nodes) - 1]
         IN BagFromRight(Append(SubSeq(peak_nodes, 1, Len(peak_nodes) - 2),
                                combine_nodes(left, right)))
    ELSE peak_nodes

compute_root_from_store(store) ==
    IF Len(store) = 0 THEN NoneRoot
    ELSE LET peaks == get_peak_positions(Len(store)) IN
         IF peaks = <<>> THEN NoneRoot
         ELSE LET present == SelectSeq(peaks, LAMBDA p : StoreHas(store, p))
                  peak_nodes == [i \in 1..Len(present) |-> store[present[i] + 1]]
              IN IF peak_nodes = <<>> THEN NoneRoot
                 ELSE V1_hash(BagFromRight(peak_nodes)[1])

\* zcash_history Tree: the stored entries and the peaks under the root
EmptyTree == [stored |-> <<>>, peaks |-> <<>>]

RECURSIVE TreeMerge(_, _, _)
TreeMerge(stored, peaks, cur) ==
    IF peaks /= <<>> /\ Last(peaks).leaf_count = cur.leaf_count
    THEN LET parent == combine_nodes(Last(peaks).node, cur.node)
         IN TreeMerge(Append(stored, parent), SubSeq(peaks, 1, Len(peaks) - 1),
                      [node |-> parent, leaf_count |-> 2 * cur.leaf_count])
    ELSE [stored |-> stored, peaks |-> Append(peaks, cur)]

\* build_tree's step: Tree::new for the first leaf, Tree::append_leaf after
Tree_append_leaf(tree, leaf) ==
    TreeMerge(Append(tree.stored, leaf), tree.peaks, [node |-> leaf, leaf_count |-> 1])

RECURSIVE BagFromLeft(_, _)
BagFromLeft(root, rest) ==
    IF rest = <<>> THEN root
    ELSE BagFromLeft(combine_nodes(root, Head(rest)), Tail(rest))

\* compute_root: the hash of the tree's root node, None without a tree
compute_root(tree) ==
    IF tree.peaks = <<>> THEN NoneRoot
    ELSE V1_hash(BagFromLeft(tree.peaks[1].node,
                             [i \in 1..Len(tree.peaks) - 1 |-> tree.peaks[i + 1].node]))

\* tree.resolve_link(EntryLink::Stored(pos)) succeeds
Resolves(tree, pos) == pos >= 0 /\ pos < Len(tree.stored)

\* proof_generator.rs: position arithmetic
RECURSIVE NthLeafPos(_, _)
NthLeafPos(p, idx) ==
    IF pos_height(p) = 0
    THEN IF idx = 0 THEN p ELSE NthLeafPos(p + 1, idx - 1)
    ELSE NthLeafPos(p + 1, idx)

leaf_index_to_pos(idx) == NthLeafPos(0, idx)

sibling_offset_half(height) == Pow2(height) - 1
sibling_offset(height) == 2 * Pow2(height) - 1

RECURSIVE GrowSize(_, _)
GrowSize(size, remaining) ==
    IF size * 2 - 1 <= remaining THEN GrowSize(size * 2, remaining) ELSE size

RECURSIVE GetPeaksLoop(_, _, _)
GetPeaksLoop(peaks, pos, remaining) ==
    IF remaining > 0
    THEN LET subtree_size == GrowSize(1, remaining) - 1
         IN IF subtree_size > 0
            THEN GetPeaksLoop(Append(peaks, pos + subtree_size - 1),
                              pos + subtree_size, remaining - subtree_size)
            ELSE peaks
    ELSE peaks

get_peaks(tree_size) == IF tree_size = 0 THEN <<>> ELSE GetPeaksLoop(<<>>, 0, tree_size)

\* ZcashInclusionProof, and the Err of generate_proof
ProofErr == [ok |-> FALSE, leaf |-> <<>>, siblings |-> <<>>, peaks |-> <<>>, peak_index |-> 0]

\* the sibling loop of generate_proof: the position it stops at, the
\* siblings collected, and whether every resolve_link succeeded
RECURSIVE SiblingWalk(_, _, _, _)
SiblingWalk(tree, pos, tree_size, siblings) ==
    LET height == pos_height(pos)
        sib_offset == sibling_offset(height)
        right_sib == pos + sib_offset
        left_sib == pos - sib_offset
    IN IF right_sib < tree_size /\ pos_height(right_sib) = height
       THEN IF Resolves(tree, right_sib)
            THEN SiblingWalk(tree, right_sib + 1, tree_size,
                     Append(siblings, [node |-> tree.stored[right_sib + 1], is_left |-> FALSE]))
            ELSE [ok |-> FALSE, pos |-> pos, siblings |-> siblings]
       ELSE IF pos >= sib_offset /\ pos_height(left_sib) = height
       THEN IF Resolves(tree, left_sib)
            THEN SiblingWalk(tree, pos + 1, tree_size,
                     Append(siblings, [node |-> tree.stored[left_sib + 1], is_left |-> TRUE]))
            ELSE [ok |-> FALSE, pos |-> pos, siblings |-> siblings]
       ELSE [ok |-> TRUE, pos |-> pos, siblings |-> siblings]

\* generate_proof(tree, leaf_index, leaf_count) of proof_generator.rs
block_mmr_generate_proof(tree, leaf_index, leaf_count) ==
    IF leaf_index >= leaf_count THEN ProofErr
    ELSE LET leaf_pos == leaf_index_to_pos(leaf_index)
             tree_size == leaf_count_to_mmr_size(leaf_count)
         IN IF ~Resolves(tree, leaf_pos) THEN ProofErr
            ELSE LET walk == SiblingWalk(tree, leaf_pos, tree_size, <<>>)
                     peak_positions == get_peaks(tree_size)
                     others == SelectSeq(peak_positions, LAMBDA p : p /= walk.pos)
                     own == {i \in 1..Len(peak_positions) : peak_positions[i] = walk.pos}
                 IN IF ~walk.ok \/ \E i \in 1..Len(others) : ~Resolves(tree, others[i])
                    THEN ProofErr
                    ELSE [ok |-> TRUE,
                          leaf |-> tree.stored[leaf_pos + 1],
                          siblings |-> walk.siblings,
                          peaks |-> [i \in 1..Len(others) |-> tree.stored[others[i] + 1]],
                          peak_index |-> IF own = {} THEN 0 ELSE Max(own) - 1]

\* ZcashInclusionProof::verify
RECURSIVE FoldProofSiblings(_, _)
FoldProofSiblings(current, siblings) ==
    IF siblings = <<>> THEN current
    ELSE FoldProofSiblings(
             IF Head(siblings).is_left
             THEN combine_nodes(Head(siblings).node, current)
             ELSE combine_nodes(current, Head(siblings).node),
             Tail(siblings))

ZcashInclusionProof_verify(proof, expected_root) ==
    LET current == FoldProofSiblings(proof.leaf, proof.siblings)
        before == SubSeq(proof.peaks, 1, Min(proof.peak_index, Len(proof.peaks)))
        after == SubSeq(proof.peaks, Min(proof.peak_index, Len(proof.peaks)) + 1,
                        Len(proof.peaks))
        all_peaks == before \o <<current>> \o after
    IN V1_hash(BagFromLeft(Head(all_peaks), Tail(all_peaks))) = expected_root

\* a store and a tree over the same leaves, nothing computed yet
FlyInit ==
    /\ IndexerIdle
    /\ prover = Idle
    /\ ser = Idle
    /\ mmr = Idle
    /\ ver = Idle
    /\ work = Idle
    /\ client = Idle
    /\ rpc = NoRequest
    /\ fly = [op |-> "new", leaves |-> 0, store |-> <<>>, tree |-> EmptyTree,
              store_root |-> NoneRoot, tree_root |-> NoneRoot,
              leaf_index |-> 0, proof |-> ProofErr,
              tamper |-> "none", expected_root |-> NoneRoot, verified |-> FALSE]

FlyCleared ==
    [fly EXCEPT !.store_root = NoneRoot, !.tree_root = NoneRoot, !.leaf_index = 0,
                !.proof = ProofErr, !.tamper = "none", !.expected_root = NoneRoot,
                !.verified = FALSE]

\* one more block: append_leaf on the store, Tree::append_leaf on the tree
FlyAppendLeaf ==
    /\ fly.leaves < MaxFlyLeaves
    /\ \E d \in FlyLeafData :
         fly' = [FlyCleared EXCEPT !.op = "append",
                                   !.leaves = fly.leaves + 1,
                                   !.store = append_leaf(fly.store, test_node(d)),
                                   !.tree = Tree_append_leaf(fly.tree, test_node(d))]
    /\ UNCHANGED <<ivars, ser, prover, mmr, ver, work, client, rpc>>

\* compute_root_from_store(&store) and compute_root(&tree)
FlyComputeRoot ==
    /\ fly' = [FlyCleared EXCEPT !.op = "root",
                                 !.store_root = compute_root_from_store(fly.store),
                                 !.tree_root = compute_root(fly.tree)]
    /\ UNCHANGED <<ivars, ser, prover, mmr, ver, work, client, rpc>>

\* generate_proof(&tree, leaf_index, leaf_count) on a tree of leaf_count leaves
FlyGenerateProof ==
    /\ fly.leaves >= 1
    /\ \E leaf_index \in 0..MaxFlyLeaves :
         fly' = [FlyCleared EXCEPT !.op = "proof",
                                   !.leaf_index = leaf_index,
                                   !.tree_root = compute_root(fly.tree),
                                   !.proof = block_mmr_generate_proof(fly.tree, leaf_index,
                                                                      fly.leaves)]
    /\ UNCHANGED <<ivars, ser, prover, mmr, ver, work, client, rpc>>

\* the roots a verifier may be handed besides the tree's own
OtherRoots ==
    ({V1_hash(fly.store[i]) : i \in 1..Len(fly.store)}
        \cup {compute_root_from_store(fly.store), V1_hash(test_node(0))})
    \ {fly.tree_root, NoneRoot}

\* proof.verify(&root) on the generated proof
FlyVerify ==
    /\ fly.op = "proof"
    /\ fly.proof.ok
    /\ fly' = [fly EXCEPT !.op = "verify", !.tamper = "none",
                          !.expected_root = fly.tree_root,
                          !.verified = ZcashInclusionProof_verify(fly.proof, fly.tree_root)]
    /\ UNCHANGED <<ivars, ser, prover, mmr, ver, work, client, rpc>>

\* the node data a leaf may be replaced by: other leaves and the nodes of
\* the tree
ReplacementNodes ==
    {test_node(d) : d \in FlyLeafData \cup {0}} \cup {fly.store[i] : i \in 1..Len(fly.store)}

\* proof.leaf = another node; proof.verify(&root)
FlyVerifyReplacedLeaf ==
    /\ fly.op = "proof"
    /\ fly.proof.ok
    /\ \E node \in ReplacementNodes :
         /\ node /= fly.proof.leaf
         /\ LET tampered == [fly.proof EXCEPT !.leaf = node]
            IN fly' = [fly EXCEPT !.op = "verify", !.tamper = "leaf",
                                  !.proof = tampered,
                                  !.expected_root = fly.tree_root,
                                  !.verified = ZcashInclusionProof_verify(tampered,
                                                                          fly.tree_root)]
    /\ UNCHANGED <<ivars, ser, prover, mmr, ver, work, client, rpc>>

\* proof.verify(&wrong_root)
FlyVerifyWrongRoot ==
    /\ fly.op = "proof"
    /\ fly.proof.ok
    /\ \E wrong_root \in OtherRoots :
         fly' = [fly EXCEPT !.op = "verify", !.tamper = "root",
                            !.expected_root = wrong_root,
                            !.verified = ZcashInclusionProof_verify(fly.proof, wrong_root)]
    /\ UNCHANGED <<ivars, ser, prover, mmr, ver, work, client, rpc>>

FlyNext ==
    \/ FlyAppendLeaf
    \/ FlyComputeRoot
    \/ FlyGenerateProof
    \/ FlyVerify
    \/ FlyVerifyReplacedLeaf
    \/ FlyVerifyWrongRoot

FlySpec == FlyInit /\ [][FlyNext]_vars

\* C37: for a store of n >= 1 appended leaves compute_root_from_store returns
\* Some(r), r being the root compute_root yields for the tree over the same
\* leaves (the peaks bagged left to right); it returns None only for an empty
\* store.
C37_StoreRootIsTreeRoot ==
    (fly /= Idle /\ fly.op = "root") =>
        /\ (fly.store_root = NoneRoot) <=> (fly.leaves = 0)
        /\ fly.store_root = fly.tree_root

\* C39: generate_proof(tree, i, n) on a tree of n >= 1 leaves succeeds exactly
\* when i < n, and the proof it returns verifies against the tree's root.
C39_ProofsGenerateAndVerify ==
    fly /= Idle =>
        /\ (fly.op = "proof") => (fly.proof.ok <=> fly.leaf_index < fly.leaves)
        /\ (fly.op = "verify" /\ fly.tamper = "none") => fly.verified

\* a verified proof with two siblings under the first of three peaks
C39_Witness ==
    /\ fly /= Idle
    /\ fly.op = "verify"
    /\ fly.tamper = "none"
    /\ fly.verified
    /\ Len(fly.proof.siblings) = 2
    /\ Len(fly.proof.peaks) = 2
    /\ fly.proof.peak_index = 0

\* C40: with collision-free combine and hash, a generated proof whose leaf is
\* replaced by different node data does not verify, and no generated proof
\* verifies against a root other than the root of its tree.
C40_TamperedProofsRejected ==
    (fly /= Idle /\ fly.op = "verify" /\ fly.tamper \in {"leaf", "root"}) => ~fly.verified

\* a replaced leaf under a right-hand sibling, and a proof held against the
\* right-to-left bagging of the same peaks
C40_Witness ==
    /\ fly /= Idle
    /\ fly.op = "verify"
    /\ ~fly.verified
    /\ Len(fly.proof.peaks) = 2
    /\ \/ fly.tamper = "leaf" /\ Len(fly.proof.siblings) >= 1 /\ ~fly.proof.siblings[1].is_left
       \/ fly.tamper = "root" /\ fly.expected_root /= NoneRoot

(***************************************************************************)
(* Proofs whose target block lies above the chain state they come with.    *)
(***************************************************************************)
\* the height of the block a proof is about: the leaf index of the raito
\* inclusion proof, the claimed block height of the zoro proof
TargetBlockHeight ==
    IF ver.lineage = "raito" THEN ver.proof.block_header_proof.leaf_index
    ELSE ver.proof.block_height

AboveChainState ==
    /\ ver.call = "verify_proof"
    /\ TargetBlockHeight > ver.proof.chain_state.block_height

\* C38: a proof whose target block height is greater than the height of the
\* supplied chain state is never accepted, with dev (or the skip options) set
\* or not: the call ends in an error, not in Ok and not in an arithmetic
\* underflow.
C38_AboveChainStateRejected ==
    AboveChainState => (~ver.ok /\ ~ver.panic)

\* the zoro verifier turns such a proof down whatever the options
C38_ZoroRejects ==
    (AboveChainState /\ ver.lineage = "zoro") => (~ver.ok /\ ~ver.panic)

\* the raito verifier turns it down when dev is off
C38_RaitoNonDevRejects ==
    (AboveChainState /\ ver.lineage = "raito" /\ ~ver.dev) => (~ver.ok /\ ~ver.panic)
====
